---- MODULE Spec2Model ----
(***************************************************************************)
(* Render pipeline of the ACGPointShadow engine: the lifecycle of the      *)
(* Default and Shadow-Mapping pipelines (construct, init, render, free)    *)
(* and the multi-pass light loop of PipelineDefault::render, which drives  *)
(* PipelineShadowMapping::render once per light; the setters of the        *)
(* tunable parameters of the Default and Skybox pipelines; and the render  *)
(* list the loop of main rebuilds from the scene graph in every pass.      *)
(*                                                                         *)
(* The program is single threaded.  A render call is followed through its  *)
(* positions (pc); the calls it makes on the graphics context are appended *)
(* to log, the record of the GPU-visible calls of the API call in flight.  *)
(***************************************************************************)
EXTENDS Integers, Sequences, FiniteSets, TLC

\* Largest number of lights in a render list handed to a render call.
MaxLights == 2

\* Largest increment (in absolute value) handed to incr_bias and incr_pfc_radius,
\* and the largest values the tunable parameters are followed up to.
MaxIncr == 2

MaxBias == 3

MaxPfc == 21

\* Number of nodes of the scenes the render list is built from.
MaxNodes == 4

\* Key presses followed in the loop of main.
MaxKeys == 3

\* Largest coordinate of a light position handed to the shadow pass.
MaxCoord == 1

VARIABLES
    dflt,           \* PipelineDefault: Managed flags, reserved->program (built or not),
                    \* whether getProgram() is Eng::Program::empty, reserved->wireframe
    shadow,         \* PipelineShadowMapping: Managed flags, reserved->program/depthMap/fbo,
                    \* whether getProgram() is Eng::Program::empty
    skybox,         \* PipelineSkybox: Managed flags, reserved->program, its uniform,
                    \* reserved->pfc_radius_scale_factor
    graph,          \* the scene graph under root: kind, local matrix, children per node
    renderList,     \* Eng::List list of main: its lights and its meshes segment
    gl,             \* state of the graphics context
    pc,             \* position of the control thread
    caller,         \* who invoked the running PipelineShadowMapping::render
    list,           \* the list argument of the render call in flight
    l,              \* loop variable of PipelineDefault::render
    totNrOfLights,  \* local of PipelineDefault::render
    ret,            \* last value returned by each pipeline's init/render/free
    log,            \* GPU-visible calls issued since the last API call was entered
    api,            \* the API call in flight, or the one that has just returned
    entry,          \* the pipelines and the graphics context as they were when the
                    \* API call in flight (or the last one) was entered
    main            \* the globals of main.cpp (showShadowMap, the light reference,
                    \* the registered callbacks) and the calls main has made in the
                    \* current pass of its loop

vars == <<dflt, shadow, skybox, graph, renderList, gl, pc, caller, list, l, totNrOfLights, ret, log, api, entry,
          main>>

Pipelines == {"dflt", "shadow"}

\* The globals of main.cpp as they are constructed: the shadow-map view is off, light
\* refers to Eng::Light::empty (written 0), which nobody has moved; no callback is
\* registered, main has made no call yet and no key has been pressed.
MainGlobals ==
    [showShadowMap |-> FALSE, light |-> 0, emptyMoved |-> FALSE, callbacks |-> FALSE,
     frame |-> << >>, keys |-> 0]

(***************************************************************************)
(* Render lists.  Eng::List::empty is the sentinel the render methods      *)
(* reject; any other list carries its number of lights.                    *)
(***************************************************************************)
ListEmpty == [sentinel |-> TRUE, lights |-> 0]

Lists == {ListEmpty} \cup {[sentinel |-> FALSE, lights |-> n] : n \in 0..MaxLights}

getNrOfLights(lst) == lst.lights

(***************************************************************************)
(* The scene graph.  Nodes are numbered from 1, the root; a node has a     *)
(* kind (light, mesh, or a structural node), a local matrix, a parent (0:  *)
(* the node hangs nowhere) and its children in stored order.  A matrix is  *)
(* kept as the sequence of the factors it is the product of, so that two   *)
(* products are equal only if they multiply the same matrices in the same  *)
(* order; the identity is the empty product.                               *)
(***************************************************************************)
Nodes == 1..MaxNodes

Root == 1

Identity == << >>

MatMul(a, b) == a \o b

\* The children of n under the parent function pf, in stored order.
RECURSIVE ChildrenFrom(_, _, _)
ChildrenFrom(pf, n, i) ==
    IF i > MaxNodes THEN << >>
    ELSE (IF pf[i] = n THEN << i >> ELSE << >>) \o ChildrenFrom(pf, n, i + 1)

ParentFunctions ==
    {pf \in [Nodes -> 0..MaxNodes] : pf[Root] = 0 /\ \A i \in Nodes : pf[i] < i}

KindFunctions ==
    {kf \in [Nodes -> {"node", "light", "mesh"}] : kf[Root] = "node"}

MakeGraph(pf, kf) ==
    [n \in Nodes |-> [kind |-> kf[n], local |-> << n >>, parent |-> pf[n],
                     children |-> ChildrenFrom(pf, n, 1)]]

Graphs == {MakeGraph(pf, kf) : pf \in ParentFunctions, kf \in KindFunctions}

\* The scene before anything is loaded: a root, every other node hanging nowhere.
EmptyScene == MakeGraph([n \in Nodes |-> 0], [n \in Nodes |-> "node"])

(***************************************************************************)
(* Eng::List: reset() and process(root).  process walks the graph depth    *)
(* first, a node before its children, the children in stored order, with   *)
(* the product of the local matrices from the root down to the node, and   *)
(* appends lights and meshes to their segments.                            *)
(***************************************************************************)
NoEntries == [lights |-> << >>, meshes |-> << >>]

ListReset(lst) == NoEntries

\* The traversal: the visits in the order they are made, each with the node and
\* the world matrix handed to the visitor.
RECURSIVE Traverse(_, _, _)
RECURSIVE TraverseChildren(_, _, _, _)
Traverse(g, n, base) ==
    LET world == MatMul(base, g[n].local)
    IN  << [node |-> n, matrix |-> world] >>
        \o TraverseChildren(g, g[n].children, 1, world)

TraverseChildren(g, cs, i, world) ==
    IF i > Len(cs) THEN << >>
    ELSE Traverse(g, cs[i], world) \o TraverseChildren(g, cs, i + 1, world)

\* Faulty variant of the visitor: a node that is neither light nor mesh is appended
\* to the meshes.
ListVisitEveryNode(lst, g, v) ==
    LET e == [ref |-> v.node, matrix |-> v.matrix]
    IN  IF g[v.node].kind = "light" THEN [lst EXCEPT !.lights = Append(@, e)]
        ELSE [lst EXCEPT !.meshes = Append(@, e)]

\* The visitor of process: a light or a mesh is appended to its segment.
ListVisit(lst, g, v) ==
    LET e == [ref |-> v.node, matrix |-> v.matrix]
    IN  IF g[v.node].kind = "light" THEN [lst EXCEPT !.lights = Append(@, e)]
        ELSE IF g[v.node].kind = "mesh" THEN [lst EXCEPT !.meshes = Append(@, e)]
        ELSE lst

RECURSIVE ListVisitAll(_, _, _, _)
ListVisitAll(lst, g, vs, i) ==
    IF i > Len(vs) THEN lst
    ELSE ListVisitAll(ListVisit(lst, g, vs[i]), g, vs, i + 1)

ListProcess(lst, g, root) == ListVisitAll(lst, g, Traverse(g, root, Identity), 1)

\* getRenderableElem(i): the entries are indexed from 0, the lights segment first.
getRenderableElem(lst, i) == (lst.lights \o lst.meshes)[i + 1]

\* Faulty variant of the update of main's loop: a list that has entries is kept.
UpdateListOnce(lst, g) ==
    IF lst = [lights |-> << >>, meshes |-> << >>]
    THEN ListProcess(lst, g, Root)
    ELSE lst

\* Faulty variant of the update of main's loop: list.reset() is left out.
UpdateListNoReset(lst, g) == ListProcess(lst, g, Root)

\* "Update list" in the loop of main: list.reset(); list.process(root);
UpdateList(lst, g) == ListProcess(ListReset(lst), g, Root)

\* Eng::Node::setMatrix: the node gets another local matrix.
NodeSetMatrix(g, n) == [g EXCEPT ![n].local = << 0 - @[1] >>]

(***************************************************************************)
(* One GPU-visible call: who issued it, which call, its argument, whether  *)
(* it succeeded, and the light index of the loop iteration it belongs to   *)
(* (-1 outside the loop).                                                  *)
(***************************************************************************)
EvR(by, op, arg, ok) == [by |-> by, op |-> op, arg |-> arg, ok |-> ok, l |-> -1]

Ev(by, op, arg) == EvR(by, op, arg, TRUE)

Tag(evs, li) == [i \in DOMAIN evs |-> [evs[i] EXCEPT !.l = li]]

(***************************************************************************)
(* float values of the tunable parameters: a NaN or a number.  acne_bias   *)
(* is counted in steps of 0.05, pfc_radius_scale_factor in units of 1.0.   *)
(***************************************************************************)
NaN == [nan |-> TRUE, v |-> 0]

F(n) == [nan |-> FALSE, v |-> n]

FAdd(a, b) == IF a.nan \/ b.nan THEN NaN ELSE F(a.v + b.v)

\* std::fmax: the larger argument; if one of them is a NaN, the other one.
fmax(a, b) ==
    IF a.nan THEN b
    ELSE IF b.nan THEN a
    ELSE IF a.v >= b.v THEN a ELSE b

\* The increments handed to incr_bias and incr_pfc_radius.
Increments == {NaN} \cup {F(k) : k \in (0 - MaxIncr)..MaxIncr}

NoUniforms == [acne_bias |-> F(0), pfc_radius_scale_factor |-> F(0), far_plane |-> F(0)]

\* The uniforms of the shadow program before anything is uploaded.
NoShadowUniforms == [shadowMatrices |-> << >>, far_plane |-> F(0)]

(***************************************************************************)
(* Eng::Managed, the lifecycle base of every pipeline.                     *)
(***************************************************************************)
ManagedInit(p) == [p |-> [p EXCEPT !.initialized = TRUE], ret |-> TRUE]

ManagedFree(p) ==
    IF p.initialized
    THEN [p |-> [p EXCEPT !.initialized = FALSE, !.dirty = TRUE], ret |-> TRUE]
    ELSE [p |-> p, ret |-> FALSE]

isDirty(p) == p.dirty

isInitialized(p) == p.initialized

setDirty(p, flag) == [p EXCEPT !.dirty = flag]

\* Eng::Program::build: a linked program exists afterwards iff the build succeeded;
\* the uniforms of a newly linked program have their default value.
ProgramBuild(p, ok) ==
    IF "uniform" \notin DOMAIN p THEN [p EXCEPT !.program = ok]
    ELSE IF "shadowMatrices" \in DOMAIN p.uniform
    THEN [p EXCEPT !.program = ok, !.uniform = NoShadowUniforms]
    ELSE [p EXCEPT !.program = ok, !.uniform = [n \in DOMAIN p.uniform |-> F(0)]]

\* Eng::Program::setFloat: reaches the GPU only if the program is linked.
ProgramSetFloat(p, name, val) ==
    IF p.program THEN [p EXCEPT !.uniform[name] = val] ELSE p

\* The two setFloat calls that upload a pipeline's tunable parameters.
UploadTunables(p) ==
    ProgramSetFloat(ProgramSetFloat(p, "acne_bias", p.acne_bias),
                    "pfc_radius_scale_factor", p.pfc_radius_scale_factor)

\* Eng::Pipeline::setProgram: the program Eng::Pipeline::getProgram() hands out from
\* now on, the pipeline's own reserved->program or the sentinel Eng::Program::empty.
setProgram(p, prog) == [p EXCEPT !.emptyProgram = (prog = "empty")]

\* getProgram() == Eng::Program::empty
ProgramIsEmpty(p) == p.emptyProgram

\* Eng::Texture::create
TextureCreate(p, ok) == [p EXCEPT !.depthMap = ok]

\* Eng::Fbo::attachTexture followed by Eng::Fbo::validate
FboAttachValidate(p, ok) == [p EXCEPT !.fbo = [attached |-> TRUE, valid |-> ok]]

(***************************************************************************)
(* Faulty variant of PipelineDefault::init that lacks the isDirty() test   *)
(* and so rebuilds on every call.                                         *)
(***************************************************************************)
PipelineDefaultInitAlways(p, buildOk) ==
    LET m == ManagedInit(p)
        loads == << Ev("dflt", "load", "vs"), Ev("dflt", "load", "fs"),
                    EvR("dflt", "build", "program", buildOk) >>
    IN  IF ~buildOk
        THEN [p |-> ProgramBuild(m.p, FALSE), ret |-> FALSE, ev |-> loads]
        ELSE [p   |-> setDirty(UploadTunables(setProgram(ProgramBuild(m.p, TRUE),
                                                         "reserved")), FALSE),
              ret |-> TRUE,
              ev  |-> loads \o << Ev("dflt", "uniform", "acne_bias"),
                                  Ev("dflt", "uniform", "pfc_radius_scale_factor") >>]

(***************************************************************************)
(* Faulty variant of PipelineDefault::init that does not upload the two    *)
(* tunable parameters to the program it has built.                         *)
(***************************************************************************)
PipelineDefaultInitNoUpload(p, buildOk) ==
    LET m == ManagedInit(p)
        loads == << Ev("dflt", "load", "vs"), Ev("dflt", "load", "fs"),
                    EvR("dflt", "build", "program", buildOk) >>
    IN  IF ~m.ret THEN [p |-> m.p, ret |-> FALSE, ev |-> << >>]
        ELSE IF ~isDirty(m.p) THEN [p |-> m.p, ret |-> FALSE, ev |-> << >>]
        ELSE IF ~buildOk
             THEN [p |-> ProgramBuild(m.p, FALSE), ret |-> FALSE, ev |-> loads]
        ELSE [p   |-> setDirty(setProgram(ProgramBuild(m.p, TRUE), "reserved"), FALSE),
              ret |-> TRUE,
              ev  |-> loads]

(***************************************************************************)
(* PipelineDefault::init                                                   *)
(***************************************************************************)
PipelineDefaultInit(p, buildOk) ==
    LET m == ManagedInit(p)
        loads == << Ev("dflt", "load", "vs"), Ev("dflt", "load", "fs"),
                    EvR("dflt", "build", "program", buildOk) >>
    IN  IF ~m.ret THEN [p |-> m.p, ret |-> FALSE, ev |-> << >>]
        ELSE IF ~isDirty(m.p) THEN [p |-> m.p, ret |-> FALSE, ev |-> << >>]
        ELSE IF ~buildOk
             THEN [p |-> ProgramBuild(m.p, FALSE), ret |-> FALSE, ev |-> loads]
        ELSE [p   |-> setDirty(UploadTunables(setProgram(ProgramBuild(m.p, TRUE),
                                                         "reserved")), FALSE),
              ret |-> TRUE,
              ev  |-> loads \o << Ev("dflt", "uniform", "acne_bias"),
                                  Ev("dflt", "uniform", "pfc_radius_scale_factor") >>]

(***************************************************************************)
(* Faulty variants of PipelineShadowMapping::init: one that clears Dirty   *)
(* before building instead of after, one that does not look at the result  *)
(* of fbo.validate().                                                      *)
(***************************************************************************)
PipelineShadowMappingInitEarlyClean(p, buildOk, createOk, validOk) ==
    LET m == ManagedInit(p)
        c == setDirty(m.p, FALSE)
        loads == << Ev("shadow", "load", "vs"), Ev("shadow", "load", "gs"),
                    Ev("shadow", "load", "fs"),
                    EvR("shadow", "build", "program", buildOk) >>
        tex   == << EvR("shadow", "create", "depthMap", createOk) >>
        att   == << Ev("shadow", "attach", "fbo"),
                    EvR("shadow", "validate", "fbo", validOk) >>
    IN  IF ~isDirty(m.p) THEN [p |-> m.p, ret |-> FALSE, ev |-> << >>]
        ELSE IF ~buildOk
             THEN [p |-> ProgramBuild(c, FALSE), ret |-> FALSE, ev |-> loads]
        ELSE IF ~createOk
             THEN [p   |-> TextureCreate(setProgram(ProgramBuild(c, TRUE), "reserved"), FALSE),
                   ret |-> FALSE, ev |-> loads \o tex]
        ELSE IF ~validOk
             THEN [p   |-> FboAttachValidate(TextureCreate(setProgram(ProgramBuild(c, TRUE), "reserved"), TRUE), FALSE),
                   ret |-> FALSE, ev |-> loads \o tex \o att]
        ELSE [p   |-> FboAttachValidate(TextureCreate(setProgram(ProgramBuild(c, TRUE), "reserved"), TRUE), TRUE),
              ret |-> TRUE, ev |-> loads \o tex \o att]

PipelineShadowMappingInitNoValidate(p, buildOk, createOk, validOk) ==
    LET m == ManagedInit(p)
        loads == << Ev("shadow", "load", "vs"), Ev("shadow", "load", "gs"),
                    Ev("shadow", "load", "fs"),
                    EvR("shadow", "build", "program", buildOk) >>
        tex   == << EvR("shadow", "create", "depthMap", createOk) >>
        att   == << Ev("shadow", "attach", "fbo"),
                    EvR("shadow", "validate", "fbo", validOk) >>
    IN  IF ~isDirty(m.p) THEN [p |-> m.p, ret |-> FALSE, ev |-> << >>]
        ELSE IF ~buildOk
             THEN [p |-> ProgramBuild(m.p, FALSE), ret |-> FALSE, ev |-> loads]
        ELSE IF ~createOk
             THEN [p   |-> TextureCreate(setProgram(ProgramBuild(m.p, TRUE), "reserved"), FALSE),
                   ret |-> FALSE, ev |-> loads \o tex]
        ELSE [p   |-> setDirty(FboAttachValidate(TextureCreate(setProgram(ProgramBuild(m.p, TRUE), "reserved"), TRUE), validOk), FALSE),
              ret |-> TRUE, ev |-> loads \o tex \o att]

(***************************************************************************)
(* PipelineShadowMapping::init                                             *)
(***************************************************************************)
PipelineShadowMappingInit(p, buildOk, createOk, validOk) ==
    LET m == ManagedInit(p)
        loads == << Ev("shadow", "load", "vs"), Ev("shadow", "load", "gs"),
                    Ev("shadow", "load", "fs"),
                    EvR("shadow", "build", "program", buildOk) >>
        tex   == << EvR("shadow", "create", "depthMap", createOk) >>
        att   == << Ev("shadow", "attach", "fbo"),
                    EvR("shadow", "validate", "fbo", validOk) >>
    IN  IF ~m.ret THEN [p |-> m.p, ret |-> FALSE, ev |-> << >>]
        ELSE IF ~isDirty(m.p) THEN [p |-> m.p, ret |-> FALSE, ev |-> << >>]
        ELSE IF ~buildOk
             THEN [p |-> ProgramBuild(m.p, FALSE), ret |-> FALSE, ev |-> loads]
        ELSE IF ~createOk
             THEN [p   |-> TextureCreate(setProgram(ProgramBuild(m.p, TRUE), "reserved"), FALSE),
                   ret |-> FALSE, ev |-> loads \o tex]
        ELSE IF ~validOk
             THEN [p   |-> FboAttachValidate(TextureCreate(setProgram(ProgramBuild(m.p, TRUE), "reserved"), TRUE), FALSE),
                   ret |-> FALSE, ev |-> loads \o tex \o att]
        ELSE [p   |-> setDirty(FboAttachValidate(TextureCreate(setProgram(ProgramBuild(m.p, TRUE), "reserved"), TRUE), TRUE), FALSE),
              ret |-> TRUE, ev |-> loads \o tex \o att]

(***************************************************************************)
(* PipelineDefault::free and PipelineShadowMapping::free                   *)
(***************************************************************************)
\* Faulty variant: reports success without going through Eng::Managed::free.
PipelineDefaultFreeNoop(p) == [p |-> p, ret |-> TRUE]

PipelineDefaultFree(p) == ManagedFree(p)

PipelineShadowMappingFree(p) == ManagedFree(p)

(***************************************************************************)
(* PipelineSkybox::init.  Construction leaves pfc_radius_scale_factor      *)
(* zero (Reserved has no constructor and is value-initialized by           *)
(* make_unique); a successful init() sets it to 20.                        *)
(***************************************************************************)
PipelineSkyboxInit(p, buildOk) ==
    LET m == ManagedInit(p)
        loads == << Ev("skybox", "load", "vs"), Ev("skybox", "load", "fs"),
                    EvR("skybox", "build", "program", buildOk) >>
        b == setProgram(ProgramBuild(m.p, TRUE), "reserved")
        q == [b EXCEPT !.pfc_radius_scale_factor = F(20)]
        u == ProgramSetFloat(q, "pfc_radius_scale_factor", q.pfc_radius_scale_factor)
    IN  IF ~m.ret THEN [p |-> m.p, ret |-> FALSE, ev |-> << >>]
        ELSE IF ~isDirty(m.p) THEN [p |-> m.p, ret |-> FALSE, ev |-> << >>]
        ELSE IF ~buildOk
             THEN [p |-> ProgramBuild(m.p, FALSE), ret |-> FALSE, ev |-> loads]
        ELSE [p   |-> setDirty([u EXCEPT !.vao = TRUE], FALSE),
              ret |-> TRUE,
              ev  |-> loads \o << Ev("skybox", "uniform", "model"),
                                  Ev("skybox", "uniform", "pfc_radius_scale_factor"),
                                  Ev("skybox", "create", "skyboxVAO") >>]

(***************************************************************************)
(* The setters of the tunable parameters: the sum is clamped with fmax,    *)
(* stored, and uploaded to the program.                                    *)
(***************************************************************************)
\* Faulty variant: the sum is stored as it is.
PipelineDefault_incr_bias_NoClamp(p, val) ==
    LET q == [p EXCEPT !.acne_bias = FAdd(p.acne_bias, val)]
    IN  ProgramSetFloat(q, "acne_bias", q.acne_bias)

PipelineDefault_incr_bias(p, val) ==
    LET q == [p EXCEPT !.acne_bias = fmax(F(0), FAdd(p.acne_bias, val))]
    IN  ProgramSetFloat(q, "acne_bias", q.acne_bias)

\* Faulty variant: clamps at 0 like incr_bias.
PipelineDefault_incr_pfc_radius_ClampAtZero(p, val) ==
    LET q == [p EXCEPT !.pfc_radius_scale_factor =
                           fmax(F(0), FAdd(p.pfc_radius_scale_factor, val))]
    IN  ProgramSetFloat(q, "pfc_radius_scale_factor", q.pfc_radius_scale_factor)

PipelineDefault_incr_pfc_radius(p, val) ==
    LET q == [p EXCEPT !.pfc_radius_scale_factor =
                           fmax(F(1), FAdd(p.pfc_radius_scale_factor, val))]
    IN  ProgramSetFloat(q, "pfc_radius_scale_factor", q.pfc_radius_scale_factor)

PipelineSkybox_incr_pfc_radius(p, val) ==
    LET q == [p EXCEPT !.pfc_radius_scale_factor =
                           fmax(F(1), FAdd(p.pfc_radius_scale_factor, val))]
    IN  ProgramSetFloat(q, "pfc_radius_scale_factor", q.pfc_radius_scale_factor)

(***************************************************************************)
(* The destructors: free() is called only on an initialized pipeline.  ev  *)
(* records the free() call made, with its result.                          *)
(***************************************************************************)
\* Faulty variant: the destructor calls free() without looking at isInitialized().
PipelineDefaultDestructorAlways(p) ==
    LET f == PipelineDefaultFree(p)
    IN  [p |-> f.p, ev |-> << EvR("dflt", "free", "Managed", f.ret) >>]

PipelineDefaultDestructor(p) ==
    IF isInitialized(p)
    THEN LET f == PipelineDefaultFree(p)
         IN  [p |-> f.p, ev |-> << EvR("dflt", "free", "Managed", f.ret) >>]
    ELSE [p |-> p, ev |-> << >>]

PipelineShadowMappingDestructor(p) ==
    IF isInitialized(p)
    THEN LET f == PipelineShadowMappingFree(p)
         IN  [p |-> f.p, ev |-> << EvR("shadow", "free", "Managed", f.ret) >>]
    ELSE [p |-> p, ev |-> << >>]

(***************************************************************************)
(* PipelineShadowMapping::render, from its entry up to the point where the *)
(* meshes are about to be drawn into the depth cube map: safety net, lazy  *)
(* initialisation, program check, program and uniforms, framebuffer and    *)
(* rasterizer settings.  ret = FALSE is an early return.                   *)
(***************************************************************************)
ShadowLazyInit(p, buildOk, createOk, validOk) ==
    IF isDirty(p)
    THEN PipelineShadowMappingInit(p, buildOk, createOk, validOk)
    ELSE [p |-> p, ret |-> TRUE, ev |-> << >>]

(***************************************************************************)
(* The six face transforms of the cube depth map.  A vector is a triple of *)
(* integers; the view matrix of glm::lookAt is kept as its three           *)
(* arguments, a projection as its parameters, a camera matrix as its       *)
(* column camera[3], the translation.                                      *)
(***************************************************************************)
VecAdd(a, b) == [i \in 1..3 |-> a[i] + b[i]]

lookAt(eye, center, up) == [eye |-> eye, center |-> center, up |-> up]

\* Faulty variant: the faces +Y and -Y change places.
ShadowTransformsSwapped(lightProj, lightPosition) ==
    << MatMul(<< lightProj >>, << lookAt(lightPosition, VecAdd(lightPosition, << 1, 0, 0 >>), << 0, 0 - 1, 0 >>) >>),
       MatMul(<< lightProj >>, << lookAt(lightPosition, VecAdd(lightPosition, << 0 - 1, 0, 0 >>), << 0, 0 - 1, 0 >>) >>),
       MatMul(<< lightProj >>, << lookAt(lightPosition, VecAdd(lightPosition, << 0, 0 - 1, 0 >>), << 0, 0, 0 - 1 >>) >>),
       MatMul(<< lightProj >>, << lookAt(lightPosition, VecAdd(lightPosition, << 0, 1, 0 >>), << 0, 0, 1 >>) >>),
       MatMul(<< lightProj >>, << lookAt(lightPosition, VecAdd(lightPosition, << 0, 0, 1 >>), << 0, 0 - 1, 0 >>) >>),
       MatMul(<< lightProj >>, << lookAt(lightPosition, VecAdd(lightPosition, << 0, 0, 0 - 1 >>), << 0, 0 - 1, 0 >>) >>) >>

\* shadowTransforms after the six push_back calls.
ShadowTransforms(lightProj, lightPosition) ==
    << MatMul(<< lightProj >>, << lookAt(lightPosition, VecAdd(lightPosition, << 1, 0, 0 >>), << 0, 0 - 1, 0 >>) >>),
       MatMul(<< lightProj >>, << lookAt(lightPosition, VecAdd(lightPosition, << 0 - 1, 0, 0 >>), << 0, 0 - 1, 0 >>) >>),
       MatMul(<< lightProj >>, << lookAt(lightPosition, VecAdd(lightPosition, << 0, 1, 0 >>), << 0, 0, 1 >>) >>),
       MatMul(<< lightProj >>, << lookAt(lightPosition, VecAdd(lightPosition, << 0, 0 - 1, 0 >>), << 0, 0, 0 - 1 >>) >>),
       MatMul(<< lightProj >>, << lookAt(lightPosition, VecAdd(lightPosition, << 0, 0, 1 >>), << 0, 0 - 1, 0 >>) >>),
       MatMul(<< lightProj >>, << lookAt(lightPosition, VecAdd(lightPosition, << 0, 0, 0 - 1 >>), << 0, 0 - 1, 0 >>) >>) >>

\* Number of faces the upload loop runs over.
NrOfFaces == 6

\* "shadowMatrices[" + std::to_string(i) + "]"
ShadowMatrixName(i) == "shadowMatrices[" \o ToString(i) \o "]"

\* float farPlane = 125.0f in PipelineShadowMapping::render.
ShadowFarPlane == 125

\* Faulty variant: the lit pass takes the far plane main gives the engine.
LitFarPlaneOfEngine == 200

\* The literal of program.setFloat("far_plane", 125.0f) in PipelineDefault::render.
LitFarPlane == 125

\* The uploads of PipelineShadowMapping::render: the loop over the six transforms
\* and far_plane.
ShadowUpload(p, camera, proj) ==
    LET lightPosition == camera.col3
        shadowTransforms == ShadowTransforms(proj, lightPosition)
    IN  [p EXCEPT !.uniform =
            [shadowMatrices |-> [i \in 0..(NrOfFaces - 1) |-> shadowTransforms[i + 1]],
             far_plane |-> F(ShadowFarPlane)]]

\* What PipelineDefault::render passes for the light main sets up: the inverse of
\* its matrix, a translation, and its projection, whose far plane is 200.
SceneLightArgs ==
    [camera |-> [col3 |-> << 0, 0, 0 >>], proj |-> [fov |-> 90, near |-> 1, far |-> 200]]

\* Faulty variant: face culling is left as the pass found it.
ShadowSettingsNoCull(g) ==
    [g EXCEPT !.program = "shadow", !.fbo = "shadow", !.colorMask = FALSE]

\* Faulty variant: the shadow pass draws filled polygons whatever the caller chose.
ShadowSettingsFilled(g) ==
    [g EXCEPT !.program = "shadow", !.fbo = "shadow", !.colorMask = FALSE,
              !.cullFace = TRUE, !.cullMode = "FRONT", !.polygonMode = "FILL"]

ShadowSettings(g) ==
    [g EXCEPT !.program = "shadow", !.fbo = "shadow", !.colorMask = FALSE,
              !.cullFace = TRUE, !.cullMode = "FRONT"]

ShadowSettingsEv ==
    << Ev("shadow", "bind", "program"),
       Ev("shadow", "uniform", "lightInv") >>
    \o [i \in 1..NrOfFaces |-> Ev("shadow", "uniform", ShadowMatrixName(i - 1))]
    \o << Ev("shadow", "uniform", "far_plane"),
       Ev("shadow", "bindFbo", "shadow"),
       Ev("shadow", "glClear", "GL_DEPTH_BUFFER_BIT"),
       Ev("shadow", "glColorMask", "0"),
       Ev("shadow", "glEnable", "GL_CULL_FACE"),
       Ev("shadow", "glCullFace", "GL_FRONT") >>

ShadowRenderPrologue(p, g, lst, buildOk, createOk, validOk, camera, proj) ==
    IF lst.sentinel
    THEN [p |-> p, gl |-> g, ret |-> FALSE, ev |-> << >>]
    ELSE LET i == ShadowLazyInit(p, buildOk, createOk, validOk)
         IN  IF ~i.ret
             THEN [p |-> i.p, gl |-> g, ret |-> FALSE, ev |-> i.ev]
             ELSE IF ProgramIsEmpty(i.p)
             THEN [p |-> i.p, gl |-> g, ret |-> FALSE, ev |-> i.ev]
             ELSE [p |-> ShadowUpload(i.p, camera, proj), gl |-> ShadowSettings(g),
                   ret |-> TRUE, ev |-> i.ev \o ShadowSettingsEv]

\* The rest of PipelineShadowMapping::render: draw, undo the settings, back to the window.
\* Faulty variant: Eng::Fbo::reset is not called.
ShadowRestoreNoReset(g) ==
    [g EXCEPT !.cullMode = "BACK", !.cullFace = FALSE, !.colorMask = TRUE]

ShadowRestore(g) ==
    [g EXCEPT !.cullMode = "BACK", !.cullFace = FALSE, !.colorMask = TRUE,
              !.fbo = "window"]

ShadowRestoreEv ==
    << Ev("shadow", "draw", "meshes"),
       Ev("shadow", "glCullFace", "GL_BACK"),
       Ev("shadow", "glDisable", "GL_CULL_FACE"),
       Ev("shadow", "glColorMask", "1"),
       Ev("shadow", "bindFbo", "window") >>

(***************************************************************************)
(* PipelineDefault::render, from its entry up to the light loop.           *)
(***************************************************************************)
\* Faulty variant: render initialises on every call, whatever the Dirty flag says.
DefaultLazyInitAlways(p, buildOk) == PipelineDefaultInitAlways(p, buildOk)

DefaultLazyInit(p, buildOk) ==
    IF isDirty(p)
    THEN PipelineDefaultInit(p, buildOk)
    ELSE [p |-> p, ret |-> TRUE, ev |-> << >>]

isWireframe(p) == p.wireframe

\* Faulty variant: the polygon mode is not switched to lines.
DefaultSettingsNoLine(p, g) == [g EXCEPT !.program = "dflt"]

DefaultSettings(p, g) ==
    [g EXCEPT !.program = "dflt",
              !.polygonMode = IF isWireframe(p) THEN "LINE" ELSE @]

DefaultSettingsEv(p) ==
    << Ev("dflt", "bind", "program"),
       Ev("dflt", "uniform", "projectionMat"),
       Ev("dflt", "uniform", "viewPos") >>
    \o (IF isWireframe(p) THEN << Ev("dflt", "glPolygonMode", "GL_LINE") >> ELSE << >>)
    \o << Ev("dflt", "uniform", "totNrOfLights") >>

\* Faulty variant: the lazy initialisation runs before the safety net on the list.
DefaultRenderPrologueInitFirst(p, g, lst, buildOk) ==
    LET i == DefaultLazyInit(p, buildOk)
    IN  IF ~i.ret
        THEN [p |-> i.p, gl |-> g, ret |-> FALSE, ev |-> i.ev]
        ELSE IF lst.sentinel
        THEN [p |-> i.p, gl |-> g, ret |-> FALSE, ev |-> i.ev]
        ELSE IF ProgramIsEmpty(i.p)
        THEN [p |-> i.p, gl |-> g, ret |-> FALSE, ev |-> i.ev]
        ELSE [p |-> i.p, gl |-> DefaultSettings(i.p, g), ret |-> TRUE,
              ev |-> i.ev \o DefaultSettingsEv(i.p)]

DefaultRenderPrologue(p, g, lst, buildOk) ==
    IF lst.sentinel
    THEN [p |-> p, gl |-> g, ret |-> FALSE, ev |-> << >>]
    ELSE LET i == DefaultLazyInit(p, buildOk)
         IN  IF ~i.ret
             THEN [p |-> i.p, gl |-> g, ret |-> FALSE, ev |-> i.ev]
             ELSE IF ProgramIsEmpty(i.p)
             THEN [p |-> i.p, gl |-> g, ret |-> FALSE, ev |-> i.ev]
             ELSE [p |-> i.p, gl |-> DefaultSettings(i.p, g), ret |-> TRUE,
                   ev |-> i.ev \o DefaultSettingsEv(i.p)]

\* Faulty variant: the loop stops one light short.
LoopCondShort(li, n) == li + 1 < n

\* Faulty variant: the loop runs one index past the lights.
LoopCondInclusive(li, n) == li <= n

\* The loop condition of the light loop.
LoopCond(li, n) == li < n

\* Faulty variant: blending is switched on for the first light already.
EnableBlendAtFirstLight(li) == li = 0

\* Faulty variant: blending is switched on one light later.
EnableBlendAtLightTwo(li) == li = 2

\* Additive blending is switched on at the head of the iteration for light 1.
EnableBlendAt(li) == li = 1

\* Faulty variant: the shading program is not bound again after the shadow pass.
DefaultLightSetupNoBind(g) == [g EXCEPT !.tex4 = "shadowMap"]

\* program.setFloat("far_plane", 125.0f) of the lit pass.
DefaultLightUniforms(p) == ProgramSetFloat(p, "far_plane", F(LitFarPlane))

\* After the shadow pass: program.render(), the per-light uniforms, and
\* getShadowMap().render(4).
DefaultLightSetup(g) == [g EXCEPT !.program = "dflt", !.tex4 = "shadowMap"]

DefaultLightSetupEv ==
    << Ev("dflt", "bind", "program"),
       Ev("dflt", "uniform", "light"),
       Ev("dflt", "uniform", "lightMatrix"),
       Ev("dflt", "uniform", "far_plane"),
       Ev("dflt", "uniform", "depthBuffer"),
       Ev("dflt", "bindTexture", "shadowMap@4") >>

\* Faulty variant: blending is switched off after the loop whatever the list holds.
DisableBlendAfterAnyList(lst) == getNrOfLights(lst) >= 0

\* After the loop blending is switched off if the list has more than one light.
DisableBlendAfter(lst) == getNrOfLights(lst) > 1

(***************************************************************************)
(* Initial state: both pipelines constructed (PipelineDefault owns its     *)
(* PipelineShadowMapping), nothing built, the graphics context in its      *)
(* default state with the window framebuffer bound.                        *)
(***************************************************************************)
Init ==
    /\ dflt = [initialized |-> FALSE, dirty |-> TRUE, program |-> FALSE,
               emptyProgram |-> FALSE, wireframe |-> FALSE, depthBuffer |-> FALSE,
               acne_bias |-> F(1), pfc_radius_scale_factor |-> F(16),
               uniform |-> NoUniforms]
    /\ graph = EmptyScene
    /\ renderList = NoEntries
    /\ skybox = [initialized |-> FALSE, dirty |-> TRUE, program |-> FALSE,
                 emptyProgram |-> FALSE, vao |-> FALSE,
                 pfc_radius_scale_factor |-> F(0),
                 uniform |-> [pfc_radius_scale_factor |-> F(0)]]
    /\ shadow = [initialized |-> FALSE, dirty |-> TRUE, program |-> FALSE,
                 emptyProgram |-> FALSE, depthMap |-> FALSE,
                 fbo |-> [attached |-> FALSE, valid |-> FALSE],
                 frontFaceCulling |-> TRUE,
                 uniform |-> NoShadowUniforms]
    /\ gl = [program |-> "none", blend |-> FALSE, blendFunc |-> "ONE_ZERO",
             polygonMode |-> "FILL", cullFace |-> FALSE, cullMode |-> "BACK",
             colorMask |-> TRUE, fbo |-> "window", tex4 |-> "none"]
    /\ pc = "idle"
    /\ caller = "top"
    /\ list = ListEmpty
    /\ l = 0
    /\ totNrOfLights = 0
    /\ ret = [dflt |-> TRUE, shadow |-> TRUE, skybox |-> TRUE]
    /\ log = << >>
    /\ api = "none"
    /\ entry = [dflt |-> dflt, shadow |-> shadow, gl |-> gl]
    /\ main = MainGlobals

(***************************************************************************)
(* API calls made by the application between render calls.                 *)
(***************************************************************************)
\* dfltPipe.render(camera, proj, lst) is entered.
CallDefaultRender(lst) ==
    /\ pc = "idle"
    /\ pc' = "dflt_entry"
    /\ list' = lst
    /\ log' = << >>
    /\ caller' = "top"
    /\ api' = "dflt.render"
    /\ entry' = [dflt |-> dflt, shadow |-> shadow, gl |-> gl]
    /\ UNCHANGED <<main, graph, renderList, skybox, dflt, shadow, gl, l, totNrOfLights, ret>>

\* The arguments camera and proj of the running PipelineShadowMapping::render: those
\* the application passed, or those of the light when PipelineDefault::render calls.
ShadowCallArgs ==
    IF caller = "top" /\ "args" \in DOMAIN entry THEN entry.args ELSE SceneLightArgs

\* A PipelineShadowMapping::render(camera, proj, lst) call with the arguments given.
CallShadowRenderWith(lst, camera, proj) ==
    /\ pc = "idle"
    /\ pc' = "shadow_entry"
    /\ list' = lst
    /\ log' = << >>
    /\ caller' = "top"
    /\ api' = "shadow.render"
    /\ entry' = [dflt |-> dflt, shadow |-> shadow, gl |-> gl,
                 args |-> [camera |-> camera, proj |-> proj]]
    /\ UNCHANGED <<main, graph, renderList, skybox, dflt, shadow, gl, l, totNrOfLights, ret>>

\* A PipelineShadowMapping::render(camera, proj, lst) call by the application.
CallShadowRender(lst) ==
    /\ pc = "idle"
    /\ pc' = "shadow_entry"
    /\ list' = lst
    /\ log' = << >>
    /\ caller' = "top"
    /\ api' = "shadow.render"
    /\ entry' = [dflt |-> dflt, shadow |-> shadow, gl |-> gl]
    /\ UNCHANGED <<main, graph, renderList, skybox, dflt, shadow, gl, l, totNrOfLights, ret>>

\* PipelineDefault::init() called directly.
CallDefaultInit(buildOk) ==
    /\ pc = "idle"
    /\ LET i == PipelineDefaultInit(dflt, buildOk)
       IN  /\ dflt' = i.p
           /\ ret' = [ret EXCEPT !.dflt = i.ret]
           /\ log' = i.ev
    /\ api' = "dflt.init"
    /\ entry' = [dflt |-> dflt, shadow |-> shadow, gl |-> gl]
    /\ pc' = "returned"
    /\ UNCHANGED <<main, graph, renderList, skybox, shadow, gl, caller, list, l, totNrOfLights>>

\* PipelineShadowMapping::init() called directly.
CallShadowInit(buildOk, createOk, validOk) ==
    /\ pc = "idle"
    /\ LET i == PipelineShadowMappingInit(shadow, buildOk, createOk, validOk)
       IN  /\ shadow' = i.p
           /\ ret' = [ret EXCEPT !.shadow = i.ret]
           /\ log' = i.ev
    /\ api' = "shadow.init"
    /\ entry' = [dflt |-> dflt, shadow |-> shadow, gl |-> gl]
    /\ pc' = "returned"
    /\ UNCHANGED <<main, graph, renderList, skybox, dflt, gl, caller, list, l, totNrOfLights>>

\* PipelineDefault::free() called directly.
CallDefaultFree ==
    /\ pc = "idle"
    /\ LET f == PipelineDefaultFree(dflt)
       IN  /\ dflt' = f.p
           /\ ret' = [ret EXCEPT !.dflt = f.ret]
    /\ log' = << >>
    /\ api' = "dflt.free"
    /\ entry' = [dflt |-> dflt, shadow |-> shadow, gl |-> gl]
    /\ pc' = "returned"
    /\ UNCHANGED <<main, graph, renderList, skybox, shadow, gl, caller, list, l, totNrOfLights>>

\* PipelineShadowMapping::free() called directly.
CallShadowFree ==
    /\ pc = "idle"
    /\ LET f == PipelineShadowMappingFree(shadow)
       IN  /\ shadow' = f.p
           /\ ret' = [ret EXCEPT !.shadow = f.ret]
    /\ log' = << >>
    /\ api' = "shadow.free"
    /\ entry' = [dflt |-> dflt, shadow |-> shadow, gl |-> gl]
    /\ pc' = "returned"
    /\ UNCHANGED <<main, graph, renderList, skybox, dflt, gl, caller, list, l, totNrOfLights>>

\* Eng::Managed::setDirty(true): a pipeline is re-marked Dirty.
MarkDefaultDirty ==
    /\ pc = "idle"
    /\ ~isDirty(dflt)
    /\ dflt' = setDirty(dflt, TRUE)
    /\ entry' = [entry EXCEPT !.dflt = dflt']
    /\ UNCHANGED <<main, graph, renderList, skybox, shadow, gl, pc, caller, list, l, totNrOfLights, ret, log, api>>

MarkShadowDirty ==
    /\ pc = "idle"
    /\ ~isDirty(shadow)
    /\ shadow' = setDirty(shadow, TRUE)
    /\ entry' = [entry EXCEPT !.shadow = shadow']
    /\ UNCHANGED <<main, graph, renderList, skybox, dflt, gl, pc, caller, list, l, totNrOfLights, ret, log, api>>

\* The application hands the sentinel program to the pipeline:
\* dfltPipe.setProgram(Eng::Program::empty).
SetDefaultProgramEmpty ==
    /\ pc = "idle"
    /\ ~ProgramIsEmpty(dflt)
    /\ dflt' = setProgram(dflt, "empty")
    /\ entry' = [entry EXCEPT !.dflt = dflt']
    /\ UNCHANGED <<main, graph, renderList, skybox, shadow, gl, pc, caller, list, l, totNrOfLights, ret, log, api>>

\* PipelineShadowMapping::setFrontFaceCulling and isFrontFaceCulling: the flag is
\* stored in the shadow pipeline and read back.
PipelineShadowMapping_setFrontFaceCulling(p, flag) == [p EXCEPT !.frontFaceCulling = flag]

isFrontFaceCulling(p) == p.frontFaceCulling

\* PipelineDefault::setFrontFaceCulling, as the space key calls it: the flag is
\* passed on to the shadow pipeline.
setFrontFaceCulling(flag) ==
    /\ pc = "idle"
    /\ flag = ~isFrontFaceCulling(shadow)
    /\ shadow' = PipelineShadowMapping_setFrontFaceCulling(shadow, flag)
    /\ entry' = [entry EXCEPT !.shadow = shadow']
    /\ UNCHANGED <<main, graph, renderList, skybox, dflt, gl, pc, caller, list, l, totNrOfLights, ret, log, api>>

\* PipelineDefault::setWireframe
setWireframe(flag) ==
    /\ pc = "idle"
    /\ dflt.wireframe # flag
    /\ dflt' = [dflt EXCEPT !.wireframe = flag]
    /\ entry' = [entry EXCEPT !.dflt = dflt']
    /\ UNCHANGED <<main, graph, renderList, skybox, shadow, gl, pc, caller, list, l, totNrOfLights, ret, log, api>>

\* The PipelineDefault object goes away: its destructor runs, then the destructor
\* of the PipelineShadowMapping its Reserved structure holds.
Destroy ==
    /\ pc = "idle"
    /\ LET d == PipelineDefaultDestructor(dflt)
           s == PipelineShadowMappingDestructor(shadow)
       IN  /\ dflt' = d.p
           /\ shadow' = s.p
           /\ log' = d.ev \o s.ev
    /\ api' = "destroy"
    /\ entry' = [dflt |-> dflt, shadow |-> shadow, gl |-> gl]
    /\ pc' = "destroyed"
    /\ UNCHANGED <<main, graph, renderList, skybox, gl, caller, list, l, totNrOfLights, ret>>

\* The API call has returned to the application: its arguments, its result and the
\* record of what it did go out of scope.
Resume ==
    /\ pc = "returned"
    /\ pc' = "idle"
    /\ list' = ListEmpty
    /\ log' = << >>
    /\ api' = "none"
    /\ ret' = [dflt |-> TRUE, shadow |-> TRUE, skybox |-> TRUE]
    /\ entry' = [dflt |-> dflt, shadow |-> shadow, gl |-> gl]
    /\ UNCHANGED <<main, graph, renderList, skybox, dflt, shadow, gl, caller, l, totNrOfLights>>

(***************************************************************************)
(* The steps of PipelineShadowMapping::render.                             *)
(***************************************************************************)
ShadowReturnPc == IF caller = "dflt" THEN "dflt_lit" ELSE "returned"

PipelineShadowMappingRenderEntry(buildOk, createOk, validOk) ==
    /\ pc = "shadow_entry"
    /\ LET a == ShadowCallArgs
           r == ShadowRenderPrologue(shadow, gl, list, buildOk, createOk, validOk,
                                     a.camera, a.proj)
           li == IF caller = "dflt" THEN l ELSE -1
       IN  /\ shadow' = r.p
           /\ gl' = r.gl
           /\ log' = log \o Tag(r.ev, li)
           /\ IF r.ret
              THEN /\ pc' = "shadow_draw"
                   /\ ret' = ret
              ELSE /\ pc' = ShadowReturnPc
                   /\ ret' = [ret EXCEPT !.shadow = FALSE]
    /\ UNCHANGED <<main, graph, renderList, skybox, dflt, caller, list, l, totNrOfLights, api, entry>>

PipelineShadowMappingRenderDraw ==
    /\ pc = "shadow_draw"
    /\ gl' = ShadowRestore(gl)
    /\ log' = log \o Tag(ShadowRestoreEv, IF caller = "dflt" THEN l ELSE -1)
    /\ ret' = [ret EXCEPT !.shadow = TRUE]
    /\ pc' = ShadowReturnPc
    /\ UNCHANGED <<main, graph, renderList, skybox, dflt, shadow, caller, list, l, totNrOfLights, api, entry>>

(***************************************************************************)
(* The steps of PipelineDefault::render.                                   *)
(***************************************************************************)
PipelineDefaultRenderEntry(buildOk) ==
    /\ pc = "dflt_entry"
    /\ LET r == DefaultRenderPrologue(dflt, gl, list, buildOk)
       IN  /\ dflt' = r.p
           /\ gl' = r.gl
           /\ log' = log \o r.ev
           /\ IF r.ret
              THEN /\ pc' = "dflt_loop"
                   /\ l' = 0
                   /\ totNrOfLights' = getNrOfLights(list)
                   /\ ret' = ret
              ELSE /\ pc' = "returned"
                   /\ ret' = [ret EXCEPT !.dflt = FALSE]
                   /\ UNCHANGED <<main, l, totNrOfLights>>
    /\ UNCHANGED <<main, graph, renderList, skybox, shadow, caller, list, api, entry>>

\* Head of one loop iteration: blending from light 1 on, then the shadow pass is invoked.
PipelineDefaultRenderLight ==
    /\ pc = "dflt_loop"
    /\ LoopCond(l, totNrOfLights)
    /\ gl' = IF EnableBlendAt(l)
             THEN [gl EXCEPT !.blend = TRUE, !.blendFunc = "ONE_ONE"]
             ELSE gl
    /\ log' = log \o Tag((IF EnableBlendAt(l)
                          THEN << Ev("dflt", "glEnable", "GL_BLEND"),
                                  Ev("dflt", "glBlendFunc", "GL_ONE,GL_ONE") >>
                          ELSE << >>)
                         \o << Ev("dflt", "call", "shadowMapping.render") >>, l)
    /\ caller' = "dflt"
    /\ pc' = "shadow_entry"
    /\ UNCHANGED <<main, graph, renderList, skybox, dflt, shadow, list, l, totNrOfLights, ret, api, entry>>

\* After the shadow pass (its result is not looked at): program and per-light uniforms.
PipelineDefaultRenderLightSetup ==
    /\ pc = "dflt_lit"
    /\ gl' = DefaultLightSetup(gl)
    /\ dflt' = DefaultLightUniforms(dflt)
    /\ log' = log \o Tag(DefaultLightSetupEv, l)
    /\ pc' = "dflt_draw"
    /\ UNCHANGED <<main, graph, renderList, skybox, shadow, caller, list, l, totNrOfLights, ret, api, entry>>

\* list.render(camera, proj, meshes): the lit draw of light l, then l++.
PipelineDefaultRenderDraw ==
    /\ pc = "dflt_draw"
    /\ log' = log \o Tag(<< Ev("dflt", "draw", "meshes") >>, l)
    /\ l' = l + 1
    /\ pc' = "dflt_loop"
    /\ UNCHANGED <<main, graph, renderList, skybox, dflt, shadow, gl, caller, list, totNrOfLights, ret, api, entry>>

\* After the last light: blending off if it was used, polygon mode back to fill, return true.
PipelineDefaultRenderExit ==
    /\ pc = "dflt_loop"
    /\ ~LoopCond(l, totNrOfLights)
    /\ gl' = [gl EXCEPT !.blend = IF DisableBlendAfter(list) THEN FALSE ELSE @,
                        !.polygonMode = IF isWireframe(dflt) THEN "FILL" ELSE @]
    /\ log' = log
              \o (IF DisableBlendAfter(list)
                  THEN << Ev("dflt", "glDisable", "GL_BLEND") >> ELSE << >>)
              \o (IF isWireframe(dflt)
                  THEN << Ev("dflt", "glPolygonMode", "GL_FILL") >> ELSE << >>)
    /\ ret' = [ret EXCEPT !.dflt = TRUE]
    /\ pc' = "returned"
    /\ caller' = "top"
    /\ l' = 0
    /\ totNrOfLights' = 0
    /\ UNCHANGED <<main, graph, renderList, skybox, dflt, shadow, list, api, entry>>

Next ==
    \/ \E lst \in Lists : CallDefaultRender(lst)
    \/ \E lst \in Lists : CallShadowRender(lst)
    \/ \E buildOk \in BOOLEAN : CallDefaultInit(buildOk)
    \/ \E buildOk, createOk, validOk \in BOOLEAN : CallShadowInit(buildOk, createOk, validOk)
    \/ CallDefaultFree
    \/ CallShadowFree
    \/ MarkDefaultDirty
    \/ MarkShadowDirty
    \/ \E flag \in BOOLEAN : setWireframe(flag)
    \/ Destroy
    \/ Resume
    \/ \E buildOk, createOk, validOk \in BOOLEAN :
          PipelineShadowMappingRenderEntry(buildOk, createOk, validOk)
    \/ PipelineShadowMappingRenderDraw
    \/ \E buildOk \in BOOLEAN : PipelineDefaultRenderEntry(buildOk)
    \/ PipelineDefaultRenderLight
    \/ PipelineDefaultRenderLightSetup
    \/ PipelineDefaultRenderDraw
    \/ PipelineDefaultRenderExit

Spec == Init /\ [][Next]_vars

(***************************************************************************)
(* One render call entered with the rasterizer toggles of the graphics     *)
(* context in any state.  The toggles are process-wide: what the           *)
(* application or another component left in them is an input of the call.  *)
(***************************************************************************)
GlStates ==
    [program : {"none"}, blend : BOOLEAN, blendFunc : {"ONE_ZERO", "ONE_ONE"},
     polygonMode : {"FILL", "LINE"}, cullFace : BOOLEAN, cullMode : {"BACK", "FRONT"},
     colorMask : BOOLEAN, fbo : {"window"}, tex4 : {"none"}]

InitAnyGl ==
    /\ dflt = [initialized |-> FALSE, dirty |-> TRUE, program |-> FALSE,
               emptyProgram |-> FALSE, wireframe |-> FALSE, depthBuffer |-> FALSE,
               acne_bias |-> F(1), pfc_radius_scale_factor |-> F(16),
               uniform |-> NoUniforms]
    /\ graph = EmptyScene
    /\ renderList = NoEntries
    /\ skybox = [initialized |-> FALSE, dirty |-> TRUE, program |-> FALSE,
                 emptyProgram |-> FALSE, vao |-> FALSE,
                 pfc_radius_scale_factor |-> F(0),
                 uniform |-> [pfc_radius_scale_factor |-> F(0)]]
    /\ shadow = [initialized |-> FALSE, dirty |-> TRUE, program |-> FALSE,
                 emptyProgram |-> FALSE, depthMap |-> FALSE,
                 fbo |-> [attached |-> FALSE, valid |-> FALSE],
                 frontFaceCulling |-> TRUE,
                 uniform |-> NoShadowUniforms]
    /\ gl \in GlStates
    /\ pc = "idle"
    /\ caller = "top"
    /\ list = ListEmpty
    /\ l = 0
    /\ totNrOfLights = 0
    /\ ret = [dflt |-> TRUE, shadow |-> TRUE, skybox |-> TRUE]
    /\ log = << >>
    /\ api = "none"
    /\ entry = [dflt |-> dflt, shadow |-> shadow, gl |-> gl]
    /\ main = MainGlobals

NextRender ==
    \/ \E lst \in Lists : CallDefaultRender(lst)
    \/ \E lst \in Lists : CallShadowRender(lst)
    \/ \E flag \in BOOLEAN : setWireframe(flag)
    \/ \E buildOk, createOk, validOk \in BOOLEAN :
          PipelineShadowMappingRenderEntry(buildOk, createOk, validOk)
    \/ PipelineShadowMappingRenderDraw
    \/ \E buildOk \in BOOLEAN : PipelineDefaultRenderEntry(buildOk)
    \/ PipelineDefaultRenderLight
    \/ PipelineDefaultRenderLightSetup
    \/ PipelineDefaultRenderDraw
    \/ PipelineDefaultRenderExit

SpecAnyGl == InitAnyGl /\ [][NextRender]_vars

(***************************************************************************)
(* The shadow pass called with a light at any position of a small grid and *)
(* with a projection whose far plane is that of the pass or that of main.  *)
(***************************************************************************)
Coords == (0 - MaxCoord)..MaxCoord

Cameras == {[col3 |-> << x, y, z >>] : x, y, z \in Coords}

LightProjs == {[fov |-> 90, near |-> 1, far |-> f] : f \in {125, 200}}

NextTransforms ==
    \/ \E lst \in Lists, camera \in Cameras, proj \in LightProjs :
          CallShadowRenderWith(lst, camera, proj)
    \/ \E buildOk, createOk, validOk \in BOOLEAN :
          PipelineShadowMappingRenderEntry(buildOk, createOk, validOk)
    \/ PipelineShadowMappingRenderDraw
    \/ Resume

SpecTransforms == Init /\ [][NextTransforms]_vars

(***************************************************************************)
(* The tunable parameters: the application calls the incr_ setters (keys   *)
(* C, V, Y, X of the demo) and init() of the two pipelines that hold       *)
(* them.  A setter call is followed as long as the value it stores stays   *)
(* within MaxBias / MaxPfc.                                                *)
(***************************************************************************)
\* How the argument of a setter call is recorded in the log.
ArgKind(val) ==
    IF val.nan THEN "NaN"
    ELSE IF val.v < 0 THEN "negative"
    ELSE IF val.v = 0 THEN "zero" ELSE "positive"

IncrBias(val) ==
    /\ pc = "idle"
    /\ dflt' = PipelineDefault_incr_bias(dflt, val)
    /\ dflt'.acne_bias.v <= MaxBias
    /\ log' = << Ev("app", "incr_bias", ArgKind(val)),
                 Ev("dflt", "uniform", "acne_bias") >>
    /\ entry' = [dflt |-> dflt, shadow |-> shadow, gl |-> gl]
    /\ api' = "dflt.incr_bias"
    /\ pc' = "returned"
    /\ UNCHANGED <<main, graph, renderList, shadow, skybox, gl, caller, list, l, totNrOfLights, ret>>

IncrPfcRadius(val) ==
    /\ pc = "idle"
    /\ dflt' = PipelineDefault_incr_pfc_radius(dflt, val)
    /\ dflt'.pfc_radius_scale_factor.v <= MaxPfc
    /\ log' = << Ev("app", "incr_pfc_radius", ArgKind(val)),
                 Ev("dflt", "uniform", "pfc_radius_scale_factor") >>
    /\ entry' = [dflt |-> dflt, shadow |-> shadow, gl |-> gl]
    /\ api' = "dflt.incr_pfc_radius"
    /\ pc' = "returned"
    /\ UNCHANGED <<main, graph, renderList, shadow, skybox, gl, caller, list, l, totNrOfLights, ret>>

SkyboxIncrPfcRadius(val) ==
    /\ pc = "idle"
    /\ skybox' = PipelineSkybox_incr_pfc_radius(skybox, val)
    /\ skybox'.pfc_radius_scale_factor.v <= MaxPfc
    /\ log' = << Ev("app", "incr_pfc_radius", ArgKind(val)),
                 Ev("skybox", "uniform", "pfc_radius_scale_factor") >>
    /\ api' = "skybox.incr_pfc_radius"
    /\ pc' = "returned"
    /\ UNCHANGED <<main, graph, renderList, dflt, shadow, gl, caller, list, l, totNrOfLights, ret, entry>>

\* PipelineSkybox::init() called directly.
CallSkyboxInit(buildOk) ==
    /\ pc = "idle"
    /\ LET i == PipelineSkyboxInit(skybox, buildOk)
       IN  /\ skybox' = i.p
           /\ ret' = [ret EXCEPT !.skybox = i.ret]
           /\ log' = i.ev
    /\ api' = "skybox.init"
    /\ pc' = "returned"
    /\ UNCHANGED <<main, graph, renderList, dflt, shadow, gl, caller, list, l, totNrOfLights, entry>>

NextTunables ==
    \/ \E val \in Increments : IncrBias(val)
    \/ \E val \in Increments : IncrPfcRadius(val)
    \/ \E val \in Increments : SkyboxIncrPfcRadius(val)
    \/ \E buildOk \in BOOLEAN : CallDefaultInit(buildOk)
    \/ \E buildOk \in BOOLEAN : CallSkyboxInit(buildOk)
    \/ Resume

SpecTunables == Init /\ [][NextTunables]_vars

(***************************************************************************)
(* The setters of the default pipeline between render calls: keys C, V, Y, *)
(* X of the demo pressed before the first frame and between frames.        *)
(***************************************************************************)
NextTunedRender ==
    \/ \E val \in Increments : IncrBias(val)
    \/ \E val \in Increments : IncrPfcRadius(val)
    \/ \E lst \in Lists : CallDefaultRender(lst)
    \/ Resume
    \/ \E buildOk, createOk, validOk \in BOOLEAN :
          PipelineShadowMappingRenderEntry(buildOk, createOk, validOk)
    \/ PipelineShadowMappingRenderDraw
    \/ \E buildOk \in BOOLEAN : PipelineDefaultRenderEntry(buildOk)
    \/ PipelineDefaultRenderLight
    \/ PipelineDefaultRenderLightSetup
    \/ PipelineDefaultRenderDraw
    \/ PipelineDefaultRenderExit

SpecTunedRender == Init /\ [][NextTunedRender]_vars

(***************************************************************************)
(* The render list of main: a scene has been loaded; in each pass of the   *)
(* loop the list is updated from it, and between two passes a key callback *)
(* may move a light.                                                       *)
(***************************************************************************)
InitList ==
    /\ dflt = [initialized |-> FALSE, dirty |-> TRUE, program |-> FALSE,
               emptyProgram |-> FALSE, wireframe |-> FALSE, depthBuffer |-> FALSE,
               acne_bias |-> F(1), pfc_radius_scale_factor |-> F(16),
               uniform |-> NoUniforms]
    /\ shadow = [initialized |-> FALSE, dirty |-> TRUE, program |-> FALSE,
                 emptyProgram |-> FALSE, depthMap |-> FALSE,
                 fbo |-> [attached |-> FALSE, valid |-> FALSE],
                 frontFaceCulling |-> TRUE,
                 uniform |-> NoShadowUniforms]
    /\ skybox = [initialized |-> FALSE, dirty |-> TRUE, program |-> FALSE,
                 emptyProgram |-> FALSE, vao |-> FALSE,
                 pfc_radius_scale_factor |-> F(0),
                 uniform |-> [pfc_radius_scale_factor |-> F(0)]]
    /\ graph \in Graphs
    /\ renderList = NoEntries
    /\ gl = [program |-> "none", blend |-> FALSE, blendFunc |-> "ONE_ZERO",
             polygonMode |-> "FILL", cullFace |-> FALSE, cullMode |-> "BACK",
             colorMask |-> TRUE, fbo |-> "window", tex4 |-> "none"]
    /\ pc = "idle"
    /\ caller = "top"
    /\ list = ListEmpty
    /\ l = 0
    /\ totNrOfLights = 0
    /\ ret = [dflt |-> TRUE, shadow |-> TRUE, skybox |-> TRUE]
    /\ log = << >>
    /\ api = "none"
    /\ entry = [dflt |-> dflt, shadow |-> shadow, gl |-> gl]
    /\ main = MainGlobals

\* The calls main makes in one pass of its loop, in the groups the statements form.
MainUpdateCalls == << "list.reset", "list.process" >>

\* Faulty variant: the default pipeline renders without a clear before it.
MainRenderCallsNoClear == << "dfltPipe.render" >>

MainRenderCalls == << "eng.clear", "dfltPipe.render" >>

MainSkyboxCalls == << "eng.clear", "skyboxPipe.render" >>

MainSwapCalls == << "eng.swap" >>

\* Faulty variant: the engine also delivers key events when an API call returns.
InProcessEventsOrOnReturn(p) == p \in {"idle", "returned"}

\* Faulty variant: the engine also delivers key events while main loads the scene.
InProcessEventsOrLoading(p) == p \in {"idle", "main_registered"}

\* The engine calls the registered callbacks from processEvents, the condition of
\* the loop of main, and from nowhere else.
InProcessEvents(p) == p = "idle"

\* PipelineSkybox::render(texture, list, camera); the texture main passes is the depth
\* map object of the shadow pipeline, never Eng::Texture::empty.
PipelineSkyboxRender(p, g, lst, buildOk) ==
    IF lst.sentinel
    THEN [p |-> p, gl |-> g, ret |-> FALSE, ev |-> << >>]
    ELSE LET i == IF isDirty(p)
                  THEN PipelineSkyboxInit(p, buildOk)
                  ELSE [p |-> p, ret |-> TRUE, ev |-> << >>]
         IN  IF ~i.ret
             THEN [p |-> i.p, gl |-> g, ret |-> FALSE, ev |-> i.ev]
             ELSE IF ProgramIsEmpty(i.p)
             THEN [p |-> i.p, gl |-> g, ret |-> FALSE, ev |-> i.ev]
             ELSE [p |-> i.p, gl |-> [g EXCEPT !.program = "skybox"], ret |-> TRUE,
                   ev |-> i.ev \o << Ev("skybox", "bind", "program"),
                                     Ev("skybox", "bindTexture", "shadowMap@0"),
                                     Ev("skybox", "uniform", "projection"),
                                     Ev("skybox", "uniform", "modelview"),
                                     Ev("skybox", "draw", "cube") >>]

\* The visits of a traversal as they go to the log: the kind of the node visited
\* and, in place of a light index, the node.
VisitEv(g, vs) ==
    [i \in DOMAIN vs |->
        [by |-> "list", op |-> "visit", arg |-> g[vs[i].node].kind, ok |-> TRUE,
         l |-> vs[i].node]]

\* list.reset(); list.process(root);
MainUpdateList ==
    /\ pc = "idle"
    /\ renderList' = UpdateList(renderList, graph)
    /\ log' = VisitEv(graph, Traverse(graph, Root, Identity))
    /\ api' = "list.process"
    /\ pc' = "returned"
    /\ main' = [main EXCEPT !.frame = MainUpdateCalls]
    /\ UNCHANGED <<dflt, shadow, skybox, graph, gl, caller, list, l, totNrOfLights,
                   ret, entry>>

\* Keys I, K, J, L: light.get().setMatrix(...)
LightSetMatrix(n) ==
    /\ pc = "idle"
    /\ graph[n].kind = "light"
    /\ graph' = NodeSetMatrix(graph, n)
    /\ UNCHANGED <<main, dflt, shadow, skybox, renderList, gl, pc, caller, list, l,
                   totNrOfLights, ret, log, api, entry>>

NextList ==
    \/ MainUpdateList
    \/ \E n \in Nodes : LightSetMatrix(n)
    \/ Resume

SpecList == InitList /\ [][NextList]_vars

(***************************************************************************)
(* The loop of main, pass by pass, with no key pressed: the list is        *)
(* updated, dfltPipe.render is called with it, and the buffers are         *)
(* swapped.  The scene is the tree that was loaded.                        *)
(***************************************************************************)
LoadedScenes == {g \in Graphs : \A n \in Nodes : g[n].parent # 0 \/ n = Root}

InitFrame ==
    /\ InitList
    /\ graph \in LoadedScenes

\* What the pipelines read of the list: its number of lights.
ListOf(rl) == [sentinel |-> FALSE, lights |-> Len(rl.lights)]

\* dfltPipe.render(camera, list), the statement after the update of the list.
MainRender ==
    /\ pc = "returned"
    /\ api = "list.process"
    /\ pc' = "dflt_entry"
    /\ list' = ListOf(renderList)
    /\ log' = << >>
    /\ caller' = "top"
    /\ api' = "dflt.render"
    /\ entry' = [dflt |-> dflt, shadow |-> shadow, gl |-> gl]
    /\ main' = [main EXCEPT !.frame = @ \o MainRenderCalls]
    /\ UNCHANGED <<graph, renderList, skybox, dflt, shadow, gl, l, totNrOfLights, ret>>

\* if (showShadowMap) { eng.clear(); skyboxPipe.render(getShadowMap(), list, camera); }
MainSkybox(buildOk) ==
    /\ pc = "returned"
    /\ api = "dflt.render"
    /\ main.showShadowMap
    /\ LET r == PipelineSkyboxRender(skybox, gl, ListOf(renderList), buildOk)
       IN  /\ skybox' = r.p
           /\ gl' = r.gl
           /\ log' = r.ev
           /\ ret' = [ret EXCEPT !.skybox = r.ret]
    /\ api' = "skybox.render"
    /\ entry' = [dflt |-> dflt, shadow |-> shadow, gl |-> gl]
    /\ main' = [main EXCEPT !.frame = @ \o MainSkyboxCalls]
    /\ UNCHANGED <<graph, renderList, dflt, shadow, pc, caller, list, l, totNrOfLights>>

\* eng.swap() and the end of the pass: control is back in processEvents.
MainSwap ==
    /\ pc = "returned"
    /\ \/ api = "dflt.render" /\ ~main.showShadowMap
       \/ api = "skybox.render"
    /\ pc' = "idle"
    /\ list' = ListEmpty
    /\ log' = << >>
    /\ api' = "none"
    /\ ret' = [dflt |-> TRUE, shadow |-> TRUE, skybox |-> TRUE]
    /\ entry' = [dflt |-> dflt, shadow |-> shadow, gl |-> gl]
    /\ main' = [main EXCEPT !.frame = @ \o MainSwapCalls]
    /\ UNCHANGED <<graph, renderList, skybox, dflt, shadow, gl, caller, l, totNrOfLights>>

NextFrame ==
    \/ MainUpdateList
    \/ MainRender
    \/ \E buildOk, createOk, validOk \in BOOLEAN :
          PipelineShadowMappingRenderEntry(buildOk, createOk, validOk)
    \/ PipelineShadowMappingRenderDraw
    \/ \E buildOk \in BOOLEAN : PipelineDefaultRenderEntry(buildOk)
    \/ PipelineDefaultRenderLight
    \/ PipelineDefaultRenderLightSetup
    \/ PipelineDefaultRenderDraw
    \/ PipelineDefaultRenderExit
    \/ MainSwap

SpecFrame == InitFrame /\ [][NextFrame]_vars

(***************************************************************************)
(* main from its first statement: the callbacks are registered, the scene  *)
(* is loaded, the light reference is bound, and the loop runs with the     *)
(* keyboard callback called from processEvents.  The scene has its nodes   *)
(* directly under root, node 2 being the one looked up as "Omni001".       *)
(***************************************************************************)
MainScenes ==
    {g \in LoadedScenes :
        \A n \in Nodes \ {Root} : g[n].parent = Root /\ (n > 2 => g[n].kind = "mesh")}

InitMain ==
    /\ dflt = [initialized |-> FALSE, dirty |-> TRUE, program |-> FALSE,
               emptyProgram |-> FALSE, wireframe |-> FALSE, depthBuffer |-> FALSE,
               acne_bias |-> F(1), pfc_radius_scale_factor |-> F(16),
               uniform |-> NoUniforms]
    /\ shadow = [initialized |-> FALSE, dirty |-> TRUE, program |-> FALSE,
                 emptyProgram |-> FALSE, depthMap |-> FALSE,
                 fbo |-> [attached |-> FALSE, valid |-> FALSE],
                 frontFaceCulling |-> TRUE,
                 uniform |-> NoShadowUniforms]
    /\ skybox = [initialized |-> FALSE, dirty |-> TRUE, program |-> FALSE,
                 emptyProgram |-> FALSE, vao |-> FALSE,
                 pfc_radius_scale_factor |-> F(0),
                 uniform |-> [pfc_radius_scale_factor |-> F(0)]]
    /\ graph \in MainScenes
    /\ renderList = NoEntries
    /\ gl = [program |-> "none", blend |-> FALSE, blendFunc |-> "ONE_ZERO",
             polygonMode |-> "FILL", cullFace |-> FALSE, cullMode |-> "BACK",
             colorMask |-> TRUE, fbo |-> "window", tex4 |-> "none"]
    /\ pc = "main_start"
    /\ caller = "top"
    /\ list = ListEmpty
    /\ l = 0
    /\ totNrOfLights = 0
    /\ ret = [dflt |-> TRUE, shadow |-> TRUE, skybox |-> TRUE]
    /\ log = << >>
    /\ api = "none"
    /\ entry = [dflt |-> dflt, shadow |-> shadow, gl |-> gl]
    /\ main = MainGlobals

\* eng.init() and the four eng.set...Callback calls.
MainRegisterCallbacks ==
    /\ pc = "main_start"
    /\ pc' = "main_registered"
    /\ main' = [main EXCEPT !.callbacks = TRUE]
    /\ UNCHANGED <<dflt, shadow, skybox, graph, renderList, gl, caller, list, l,
                   totNrOfLights, ret, log, api, entry>>

\* ovo.load(...): the scene graph is in memory.
MainLoadScene ==
    /\ pc = "main_registered"
    /\ pc' = "main_loaded"
    /\ UNCHANGED <<main, dflt, shadow, skybox, graph, renderList, gl, caller, list, l,
                   totNrOfLights, ret, log, api, entry>>

\* light = dynamic_cast<Eng::Light &>(find("Omni001")), the set-up of light and
\* camera, and the entry into the loop.  The cast of a node that is no light throws
\* and the program ends.
MainBindLight ==
    /\ pc = "main_loaded"
    /\ IF graph[2].kind = "light"
       THEN /\ main' = [main EXCEPT !.light = 2]
            /\ pc' = "idle"
       ELSE /\ main' = main
            /\ pc' = "terminated"
    /\ UNCHANGED <<dflt, shadow, skybox, graph, renderList, gl, caller, list, l,
                   totNrOfLights, ret, log, api, entry>>

Keys == {"W", "S", "D", "I", "K", "J", "L", "C", "V", "Y", "X", " "}

LightKeys == {"I", "K", "J", "L"}

\* keyboardCallback(key, scancode, 0, mods), called by the engine for a key event.
keyboardCallback(key) ==
    /\ main.callbacks
    /\ InProcessEvents(pc)
    /\ main.keys < MaxKeys
    /\ dflt' = CASE key = "W" -> [dflt EXCEPT !.wireframe = ~isWireframe(dflt)]
                 [] key = "D" -> [dflt EXCEPT !.depthBuffer = ~dflt.depthBuffer]
                 [] key = "C" -> PipelineDefault_incr_bias(dflt, F(0 - 1))
                 [] key = "V" -> PipelineDefault_incr_bias(dflt, F(1))
                 [] key = "Y" -> PipelineDefault_incr_pfc_radius(dflt, F(2))
                 [] key = "X" -> PipelineDefault_incr_pfc_radius(dflt, F(0 - 2))
                 [] OTHER -> dflt
    /\ skybox' = CASE key = "Y" -> PipelineSkybox_incr_pfc_radius(skybox, F(2))
                   [] key = "X" -> PipelineSkybox_incr_pfc_radius(skybox, F(0 - 2))
                   [] OTHER -> skybox
    /\ shadow' = IF key = " "
                 THEN PipelineShadowMapping_setFrontFaceCulling(
                         shadow, ~isFrontFaceCulling(shadow))
                 ELSE shadow
    /\ graph' = IF key \in LightKeys /\ main.light # 0
                THEN NodeSetMatrix(graph, main.light)
                ELSE graph
    /\ main' = [main EXCEPT !.showShadowMap = IF key = "S" THEN ~@ ELSE @,
                            !.emptyMoved = @ \/ (key \in LightKeys /\ main.light = 0),
                            !.keys = @ + 1]
    /\ dflt'.acne_bias.v <= MaxBias
    /\ dflt'.pfc_radius_scale_factor.v <= MaxPfc
    /\ skybox'.pfc_radius_scale_factor.v <= MaxPfc
    /\ entry' = [dflt |-> dflt', shadow |-> shadow', gl |-> gl]
    /\ UNCHANGED <<renderList, gl, pc, caller, list, l, totNrOfLights, ret, log, api>>

\* processEvents() returns false: the loop is left and main returns.
MainExit ==
    /\ pc = "idle"
    /\ pc' = "terminated"
    /\ UNCHANGED <<main, dflt, shadow, skybox, graph, renderList, gl, caller, list, l,
                   totNrOfLights, ret, log, api, entry>>

NextMain ==
    \/ MainRegisterCallbacks
    \/ MainLoadScene
    \/ MainBindLight
    \/ \E key \in Keys : keyboardCallback(key)
    \/ MainUpdateList
    \/ MainRender
    \/ \E buildOk, createOk, validOk \in BOOLEAN :
          PipelineShadowMappingRenderEntry(buildOk, createOk, validOk)
    \/ PipelineShadowMappingRenderDraw
    \/ \E buildOk \in BOOLEAN : PipelineDefaultRenderEntry(buildOk)
    \/ PipelineDefaultRenderLight
    \/ PipelineDefaultRenderLightSetup
    \/ PipelineDefaultRenderDraw
    \/ PipelineDefaultRenderExit
    \/ \E buildOk \in BOOLEAN : MainSkybox(buildOk)
    \/ MainSwap
    \/ MainExit

SpecMain == InitMain /\ [][NextMain]_vars

(***************************************************************************)
(* Render calls of the application with the space key of the demo, which   *)
(* flips the front-face-culling flag between two frames.                   *)
(***************************************************************************)
NextCulling ==
    \/ \E lst \in Lists : CallDefaultRender(lst)
    \/ \E flag \in BOOLEAN : setFrontFaceCulling(flag)
    \/ Resume
    \/ \E buildOk, createOk, validOk \in BOOLEAN :
          PipelineShadowMappingRenderEntry(buildOk, createOk, validOk)
    \/ PipelineShadowMappingRenderDraw
    \/ \E buildOk \in BOOLEAN : PipelineDefaultRenderEntry(buildOk)
    \/ PipelineDefaultRenderLight
    \/ PipelineDefaultRenderLightSetup
    \/ PipelineDefaultRenderDraw
    \/ PipelineDefaultRenderExit

SpecCulling == Init /\ [][NextCulling]_vars

(***************************************************************************)
(* The application as above, which in addition may take the program away   *)
(* from the Default pipeline.                                              *)
(***************************************************************************)
NextSetProgram ==
    \/ Next
    \/ SetDefaultProgramEmpty

SpecSetProgram == Init /\ [][NextSetProgram]_vars

(***************************************************************************)
(* Vocabulary of the properties.                                           *)
(***************************************************************************)
Pipe(p) == IF p = "dflt" THEN dflt ELSE shadow

PipeNext(p) == IF p = "dflt" THEN dflt' ELSE shadow'

EntryPc(p) == IF p = "dflt" THEN "dflt_entry" ELSE "shadow_entry"

\* The step that runs the first part of p's render (safety net, lazy init, settings).
RenderEntry(p) == pc = EntryPc(p) /\ pc' # pc

\* That step did not return early: the render goes on to its draw calls.
Proceeds(p) == pc' = (IF p = "dflt" THEN "dflt_loop" ELSE "shadow_draw")

\* A direct call of p.init() / p.free() from the application.
InitCall(p) ==
    pc = "idle" /\ api' = (IF p = "dflt" THEN "dflt.init" ELSE "shadow.init") /\ vars' # vars

FreeCall(p) ==
    pc = "idle" /\ api' = (IF p = "dflt" THEN "dflt.free" ELSE "shadow.free") /\ vars' # vars

\* The calls appended to the log by a step.
NewEvents == SubSeq(log', Len(log) + 1, Len(log'))

AllOk(evs) == \A i \in DOMAIN evs : evs[i].ok

BuildsBy(evs, p) == Cardinality({i \in DOMAIN evs : evs[i].by = p /\ evs[i].op = "build"})

HasCall(evs, p, op) == \E i \in DOMAIN evs : evs[i].by = p /\ evs[i].op = op

\* The GPU resources of a pipeline: linked program, depth cube map, FBO attachment.
HasResource(p) ==
    IF p = "dflt" THEN dflt.program
    ELSE shadow.program \/ shadow.depthMap \/ shadow.fbo.attached

\* Everything init() builds is there and valid.
Complete(q, p) ==
    IF p = "dflt" THEN q.program
    ELSE q.program /\ q.depthMap /\ q.fbo.attached /\ q.fbo.valid

\* The first calls of a full build, in order.
BuildPrefix(p) ==
    IF p = "dflt" THEN << "load", "load", "build" >>
    ELSE << "load", "load", "load", "build" >>

StartsBuild(evs, p) ==
    /\ Len(evs) >= Len(BuildPrefix(p))
    /\ \A i \in DOMAIN BuildPrefix(p) : evs[i].by = p /\ evs[i].op = BuildPrefix(p)[i]

\* A PipelineDefault::render call has returned true.
DefaultRenderDone == pc = "returned" /\ api = "dflt.render" /\ ret.dflt

BlendCall(e) ==
    \/ e.op \in {"glEnable", "glDisable"} /\ e.arg = "GL_BLEND"
    \/ e.op = "glBlendFunc"

EnablesBlend(evs) ==
    \E i \in DOMAIN evs : evs[i].op = "glEnable" /\ evs[i].arg = "GL_BLEND"

(***************************************************************************)
(* C1.  When a PipelineDefault::render call that reached the light loop    *)
(* returns, it has enabled blending iff the list has more than one light;  *)
(* with exactly one light it has issued no glEnable/glDisable(GL_BLEND)    *)
(* and no glBlendFunc, and the blend state is the one found at entry.      *)
(***************************************************************************)
C1_BlendIffSeveralLights ==
    DefaultRenderDone =>
        /\ EnablesBlend(log) <=> getNrOfLights(list) > 1
        /\ getNrOfLights(list) = 1 =>
              /\ \A i \in DOMAIN log : ~BlendCall(log[i])
              /\ gl.blend = entry.gl.blend
              /\ gl.blendFunc = entry.gl.blendFunc

C1_Witness ==
    /\ DefaultRenderDone
    /\ getNrOfLights(list) = 2
    /\ EnablesBlend(log)
    /\ gl.blendFunc = "ONE_ONE"

(***************************************************************************)
(* C2.  A PipelineDefault::render call over a list with N lights that      *)
(* returns true has made exactly N invocations of the shadow pipeline and  *)
(* N lit draws, alternating shadow 0, draw 0, shadow 1, draw 1, ...; all   *)
(* calls the shadow pass for light k issues lie between the invocation for *)
(* k and the lit draw of k.                                                *)
(***************************************************************************)
PassEvents(evs) ==
    SelectSeq(evs, LAMBDA e : e.by = "dflt" /\ e.op \in {"call", "draw"})

ExpectedPasses(n) ==
    [i \in 1..(2 * n) |->
        IF i % 2 = 1
        THEN [by |-> "dflt", op |-> "call", arg |-> "shadowMapping.render",
              ok |-> TRUE, l |-> (i - 1) \div 2]
        ELSE [by |-> "dflt", op |-> "draw", arg |-> "meshes",
              ok |-> TRUE, l |-> (i - 2) \div 2]]

C2_ShadowAndDrawInterleaved ==
    DefaultRenderDone =>
        /\ PassEvents(log) = ExpectedPasses(getNrOfLights(list))
        /\ \A i \in DOMAIN log :
              log[i].by = "shadow" =>
                 /\ \E a \in 1..(i - 1) :
                       /\ log[a].by = "dflt" /\ log[a].op = "call"
                       /\ log[a].l = log[i].l
                 /\ \E b \in (i + 1)..Len(log) :
                       /\ log[b].by = "dflt" /\ log[b].op = "draw"
                       /\ log[b].l = log[i].l

C2_Witness ==
    /\ DefaultRenderDone
    /\ getNrOfLights(list) = 2
    /\ Len(PassEvents(log)) = 4
    /\ \E i, j \in DOMAIN log :
          /\ log[i].by = "shadow" /\ log[i].op = "draw" /\ log[i].l = 0
          /\ log[j].by = "shadow" /\ log[j].op = "draw" /\ log[j].l = 1

(***************************************************************************)
(* C3.  A render call of either pipeline with the empty list returns false *)
(* and leaves the pipelines and the graphics context as they were: init()  *)
(* is not run although the pipeline may be Dirty, and no call reaches the  *)
(* GPU.                                                                    *)
(***************************************************************************)
C3_EmptyListRejected ==
    [][\A p \in Pipelines :
         (RenderEntry(p) /\ list.sentinel) =>
            /\ UNCHANGED <<main, dflt, shadow, gl>>
            /\ log' = << >>
            /\ pc' = "returned"
            /\ ~ret'[p]]_vars

C3_Witness ==
    /\ pc = "returned" /\ api = "dflt.render" /\ list.sentinel
    /\ ~ret.dflt
    /\ isDirty(dflt) /\ ~isInitialized(dflt) /\ ~dflt.program
    /\ log = << >>

(***************************************************************************)
(* C4.  A render call whose lazy init() fails returns false and leaves no  *)
(* trace: no call reached the GPU, and pipelines and graphics context are  *)
(* as they were at entry.                                                  *)
(***************************************************************************)
C4_FailedInitLeavesNoTrace ==
    [][\A p \in Pipelines :
         (RenderEntry(p) /\ ~list.sentinel /\ isDirty(Pipe(p)) /\ ~Proceeds(p)) =>
            /\ ~ret'[p]
            /\ UNCHANGED <<main, dflt, shadow, gl, log>>]_vars

(***************************************************************************)
(* C5 as stated.  A pipeline that is not initialized (newly constructed or *)
(* freed) is Dirty; the first render call with a valid list after the      *)
(* pipeline was constructed, freed or re-marked Dirty builds exactly once; *)
(* and once a render or init() call has run the build, no later render     *)
(* call builds again.                                                      *)
(***************************************************************************)
\* No init() has run on q since it was constructed, freed or re-marked Dirty.
Fresh(q, p) == ~isInitialized(q) \/ (isDirty(q) /\ Complete(q, p))

C5_NeverBuiltAgain ==
    /\ [](\A p \in Pipelines : ~isInitialized(Pipe(p)) => isDirty(Pipe(p)))
    /\ [][\A p \in Pipelines :
            (RenderEntry(p) /\ ~list.sentinel) =>
               /\ Fresh(Pipe(p), p) => BuildsBy(NewEvents, p) = 1
               /\ ~Fresh(Pipe(p), p) => BuildsBy(NewEvents, p) = 0]_vars

(***************************************************************************)
(* C5 amended.  As above, but the build is not repeated once an init() has *)
(* succeeded: a render call on a pipeline whose init() has built           *)
(* everything and cleared Dirty issues no build, leaves what init() built  *)
(* and the pipeline's flags untouched and goes on to draw.  (After a       *)
(* failed init() the next render call does build again.)                   *)
(***************************************************************************)
Built(r) == [f \in DOMAIN r \ {"uniform"} |-> r[f]]

C5_NotRebuiltAfterSuccess ==
    /\ [](\A p \in Pipelines : ~isInitialized(Pipe(p)) => isDirty(Pipe(p)))
    /\ [][\A p \in Pipelines :
            (RenderEntry(p) /\ ~list.sentinel) =>
               /\ Fresh(Pipe(p), p) => BuildsBy(NewEvents, p) = 1
               /\ (isInitialized(Pipe(p)) /\ ~isDirty(Pipe(p))) =>
                     /\ BuildsBy(NewEvents, p) = 0
                     /\ Built(PipeNext(p)) = Built(Pipe(p))
                     /\ Complete(Pipe(p), p)
                     /\ Proceeds(p)]_vars

C5_Witness ==
    /\ DefaultRenderDone
    /\ getNrOfLights(list) >= 1
    /\ isInitialized(entry.dflt) /\ ~isDirty(entry.dflt)
    /\ isInitialized(entry.shadow) /\ ~isDirty(entry.shadow)
    /\ ~HasCall(log, "dflt", "build") /\ ~HasCall(log, "shadow", "build")
    /\ HasCall(log, "dflt", "draw") /\ HasCall(log, "shadow", "draw")

(***************************************************************************)
(* C6.  A render call with a valid list on a Dirty pipeline, in particular *)
(* the one after a render whose init() failed, runs the build from the     *)
(* start (shader loads, program build, then depth map creation and         *)
(* framebuffer validation); if a build step fails the call returns false   *)
(* and the pipeline stays Dirty, if every step succeeds the pipeline is no *)
(* longer Dirty, is completely built and the render goes on.               *)
(***************************************************************************)
C6_DirtyRetriesFullBuild ==
    [][\A p \in Pipelines :
         (RenderEntry(p) /\ ~list.sentinel /\ isDirty(Pipe(p))) =>
            /\ StartsBuild(NewEvents, p)
            /\ AllOk(NewEvents) =>
                  /\ ~isDirty(PipeNext(p))
                  /\ Complete(PipeNext(p), p)
                  /\ p = "shadow" => HasCall(NewEvents, p, "create")
                                     /\ HasCall(NewEvents, p, "validate")
                  /\ Proceeds(p)
            /\ ~AllOk(NewEvents) =>
                  /\ isDirty(PipeNext(p))
                  /\ ~ret'[p]
                  /\ ~Proceeds(p)]_vars

C6_Witness ==
    /\ pc = "returned" /\ api = "shadow.render" /\ ret.shadow
    /\ entry.shadow.initialized /\ entry.shadow.dirty /\ ~Complete(entry.shadow, "shadow")
    /\ ~isDirty(shadow) /\ Complete(shadow, "shadow")
    /\ HasCall(log, "shadow", "validate") /\ HasCall(log, "shadow", "draw")

(***************************************************************************)
(* C7 as stated.  init() called on a pipeline that is Initialized and      *)
(* Dirty rebuilds, clears Dirty and returns true.                          *)
(***************************************************************************)
C7_ReinitAlwaysSucceeds ==
    [][\A p \in Pipelines :
         (InitCall(p) /\ isInitialized(Pipe(p)) /\ isDirty(Pipe(p))) =>
            /\ StartsBuild(log', p)
            /\ ~isDirty(PipeNext(p))
            /\ ret'[p]]_vars

(***************************************************************************)
(* C7 amended.  init() called on a pipeline that is Initialized and Dirty  *)
(* runs the build again; if every build step succeeds it clears Dirty and  *)
(* returns true with everything built, and if a step fails it returns      *)
(* false and the pipeline stays Dirty.                                     *)
(***************************************************************************)
C7_ReinitRebuilds ==
    [][\A p \in Pipelines :
         (InitCall(p) /\ isInitialized(Pipe(p)) /\ isDirty(Pipe(p))) =>
            /\ StartsBuild(log', p)
            /\ isInitialized(PipeNext(p))
            /\ AllOk(log') =>
                  /\ ~isDirty(PipeNext(p))
                  /\ Complete(PipeNext(p), p)
                  /\ ret'[p]
            /\ ~AllOk(log') =>
                  /\ isDirty(PipeNext(p))
                  /\ ~ret'[p]]_vars

C7_Witness ==
    /\ pc = "returned" /\ api = "shadow.init" /\ ret.shadow
    /\ entry.shadow.initialized /\ entry.shadow.dirty /\ Complete(entry.shadow, "shadow")
    /\ isInitialized(shadow) /\ ~isDirty(shadow)
    /\ HasCall(log, "shadow", "build") /\ HasCall(log, "shadow", "validate")

(***************************************************************************)
(* C8.  init() called on a pipeline that is Initialized and not Dirty      *)
(* returns false and does nothing: no call reaches the GPU and pipelines   *)
(* and graphics context are unchanged.                                     *)
(***************************************************************************)
C8_InitOnCleanIsNoop ==
    [][\A p \in Pipelines :
         (InitCall(p) /\ isInitialized(Pipe(p)) /\ ~isDirty(Pipe(p))) =>
            /\ ~ret'[p]
            /\ log' = << >>
            /\ UNCHANGED <<main, dflt, shadow, gl>>]_vars

C8_Witness ==
    /\ pc = "returned" /\ api = "dflt.init" /\ ~ret.dflt
    /\ entry.dflt.initialized /\ ~entry.dflt.dirty
    /\ dflt = entry.dflt
    /\ dflt.program
    /\ log = << >>

(***************************************************************************)
(* C9.  free() on an Initialized pipeline returns true and leaves it       *)
(* Uninitialized and Dirty; a render call on an Uninitialized, Dirty       *)
(* pipeline with a valid list starts with init(), and goes on to its draw  *)
(* calls only if that init() built everything.                             *)
(***************************************************************************)
C9_FreeThenRenderInits ==
    [][\A p \in Pipelines :
         /\ (FreeCall(p) /\ isInitialized(Pipe(p))) =>
               /\ ret'[p]
               /\ ~isInitialized(PipeNext(p))
               /\ isDirty(PipeNext(p))
         /\ (RenderEntry(p) /\ ~list.sentinel
               /\ ~isInitialized(Pipe(p)) /\ isDirty(Pipe(p))) =>
               /\ StartsBuild(NewEvents, p)
               /\ Proceeds(p) => (isInitialized(PipeNext(p)) /\ Complete(PipeNext(p), p))]_vars

C9_Witness ==
    /\ pc = "returned" /\ api = "dflt.render" /\ ret.dflt
    /\ getNrOfLights(list) >= 1
    /\ ~entry.dflt.initialized /\ entry.dflt.dirty /\ entry.dflt.program
    /\ isInitialized(dflt) /\ ~isDirty(dflt)
    /\ HasCall(log, "dflt", "build") /\ HasCall(log, "dflt", "draw")

(***************************************************************************)
(* C10.  In every state, a pipeline that has a GPU resource (linked        *)
(* program, depth cube map, FBO attachment) is initialized.                *)
(***************************************************************************)
C10_ResourceOnlyIfInitialized ==
    \A p \in Pipelines : HasResource(p) => isInitialized(Pipe(p))

(***************************************************************************)
(* C11.  Destruction calls free() on a pipeline exactly when the pipeline   *)
(* is initialized, that free() succeeds, and afterwards no pipeline is     *)
(* initialized; an explicit free() returns true exactly when the pipeline  *)
(* is initialized and leaves it uninitialized, and on a pipeline that is   *)
(* not initialized it returns false and changes nothing.  So a pipeline    *)
(* freed explicitly is not freed again by its destructor.                  *)
(***************************************************************************)
FreeCalls(evs, p) ==
    Cardinality({i \in DOMAIN evs : evs[i].by = p /\ evs[i].op = "free"})

C11_ReleasedExactlyOnce ==
    [][\A p \in Pipelines :
         /\ (pc = "idle" /\ pc' = "destroyed") =>
               /\ FreeCalls(log', p) = (IF isInitialized(Pipe(p)) THEN 1 ELSE 0)
               /\ AllOk(log')
               /\ ~isInitialized(PipeNext(p))
         /\ FreeCall(p) =>
               /\ ret'[p] <=> isInitialized(Pipe(p))
               /\ ~isInitialized(PipeNext(p))
               /\ ~isInitialized(Pipe(p)) => UNCHANGED <<dflt, shadow, gl>>]_vars

C11_Witness ==
    /\ pc = "destroyed"
    /\ ~isInitialized(entry.dflt) /\ entry.dflt.program
    /\ isInitialized(entry.shadow)
    /\ FreeCalls(log, "dflt") = 0
    /\ FreeCalls(log, "shadow") = 1
    /\ ~isInitialized(shadow)

(***************************************************************************)
(* C12.  When a PipelineShadowMapping::render call made by the application *)
(* has returned, the cull-face enable flag, the cull-face direction and    *)
(* the color write mask are what they were when the call was entered,      *)
(* whatever they were.                                                     *)
(***************************************************************************)
ShadowRenderReturned == pc = "returned" /\ api = "shadow.render"

C12_ShadowRestoresPriorToggles ==
    ShadowRenderReturned =>
        /\ gl.cullFace = entry.gl.cullFace
        /\ gl.cullMode = entry.gl.cullMode
        /\ gl.colorMask = entry.gl.colorMask

(***************************************************************************)
(* C13.  When a PipelineDefault::render call has returned, the blend       *)
(* enable flag, the blend function and the polygon mode are what they were *)
(* when the call was entered, whatever they were and however many lights   *)
(* the list has.                                                           *)
(***************************************************************************)
DefaultRenderReturned == pc = "returned" /\ api = "dflt.render"

C13_DefaultRestoresPriorToggles ==
    DefaultRenderReturned =>
        /\ gl.blend = entry.gl.blend
        /\ gl.blendFunc = entry.gl.blendFunc
        /\ gl.polygonMode = entry.gl.polygonMode

(***************************************************************************)
(* C14.  Whenever PipelineShadowMapping::render has returned, to the       *)
(* application or to PipelineDefault::render, with true or with false, the *)
(* render target is the window; the shadow framebuffer is bound only while *)
(* the shadow pass draws, and every lit draw is issued with the window as  *)
(* target.                                                                 *)
(***************************************************************************)
C14_WindowBoundAfterShadowPass ==
    /\ ShadowRenderReturned => gl.fbo = "window"
    /\ pc \in {"dflt_lit", "dflt_draw"} => gl.fbo = "window"
    /\ gl.fbo = "shadow" => pc = "shadow_draw"

C14_Witness ==
    /\ pc = "dflt_draw"
    /\ l = 1
    /\ ret.shadow
    /\ gl.fbo = "window"
    /\ \E i, j \in DOMAIN log :
          /\ i < j
          /\ log[i].op = "bindFbo" /\ log[i].arg = "shadow" /\ log[i].l = 1
          /\ log[j].op = "bindFbo" /\ log[j].arg = "window" /\ log[j].l = 1

(***************************************************************************)
(* C15.  A PipelineDefault::render call during which a shadow pass failed  *)
(* (a build step of the shadow pipeline's lazy init() did not succeed)     *)
(* returns false.                                                          *)
(***************************************************************************)
ShadowPassFailed(evs) == \E i \in DOMAIN evs : evs[i].by = "shadow" /\ ~evs[i].ok

C15_ShadowFailureSurfaced ==
    (DefaultRenderReturned /\ ShadowPassFailed(log)) => ~ret.dflt

(***************************************************************************)
(* C16.  A PipelineDefault::render call entered with a valid list while    *)
(* the pipeline's program is Eng::Program::empty returns false and changes *)
(* nothing: no build by a lazy init(), no program bound, no uniform set,   *)
(* no toggle changed.                                                      *)
(***************************************************************************)
C16_EmptyProgramRejected ==
    [][(RenderEntry("dflt") /\ ~list.sentinel /\ ProgramIsEmpty(dflt)) =>
          /\ pc' = "returned"
          /\ ~ret'.dflt
          /\ log' = log
          /\ UNCHANGED <<main, dflt, shadow, gl>>]_vars

(***************************************************************************)
(* C17.  The stored acne_bias is a number and never below 0, whatever      *)
(* increments (positive, negative, NaN) incr_bias has been called with,    *)
(* starting from 0.05.                                                     *)
(***************************************************************************)
C17_BiasNeverNegative ==
    /\ ~dflt.acne_bias.nan
    /\ dflt.acne_bias.v >= 0

C17_Witness ==
    /\ pc = "returned" /\ api = "dflt.incr_bias"
    /\ log[1].arg = "negative"
    /\ entry.dflt.acne_bias = F(0)
    /\ dflt.acne_bias = F(0)
    /\ dflt.program /\ dflt.uniform.acne_bias = F(0)

(***************************************************************************)
(* C18.  The pfc_radius_scale_factor stored in the Default pipeline is a   *)
(* number and never below 1.0, starting from 16.0; the one stored in the   *)
(* Skybox pipeline is a number and not below 1.0 once incr_pfc_radius or a *)
(* successful init() has stored it, whatever the increments were.          *)
(***************************************************************************)
SkyboxPfcStored ==
    \/ pc = "returned" /\ api = "skybox.incr_pfc_radius"
    \/ skybox.program
    \/ skybox.pfc_radius_scale_factor # F(0)

C18_PfcRadiusAtLeastOne ==
    /\ ~dflt.pfc_radius_scale_factor.nan
    /\ dflt.pfc_radius_scale_factor.v >= 1
    /\ ~skybox.pfc_radius_scale_factor.nan
    /\ SkyboxPfcStored => skybox.pfc_radius_scale_factor.v >= 1

C18_Witness ==
    /\ pc = "returned" /\ api = "skybox.incr_pfc_radius"
    /\ log[1].arg = "negative"
    /\ skybox.pfc_radius_scale_factor = F(1)
    /\ dflt.pfc_radius_scale_factor = F(1)
    /\ dflt.program /\ dflt.uniform.pfc_radius_scale_factor = F(1)

(***************************************************************************)
(* C19.  During a PipelineDefault::render call entered with wireframe on,  *)
(* the polygon mode is line whenever a lit draw is about to be issued, and *)
(* it is fill when the call has returned; a call entered with wireframe    *)
(* off issues no glPolygonMode and the polygon mode stays what it was at   *)
(* entry.                                                                  *)
(***************************************************************************)
C19_WireframeWrapsDraws ==
    api = "dflt.render" =>
        /\ isWireframe(entry.dflt) =>
              /\ pc = "dflt_draw" => gl.polygonMode = "LINE"
              /\ pc = "returned" => gl.polygonMode = "FILL"
        /\ ~isWireframe(entry.dflt) =>
              /\ \A i \in DOMAIN log : log[i].op # "glPolygonMode"
              /\ gl.polygonMode = entry.gl.polygonMode

C19_Witness ==
    /\ DefaultRenderDone
    /\ isWireframe(entry.dflt)
    /\ getNrOfLights(list) = 2
    /\ gl.polygonMode = "FILL"
    /\ \E i, j, k \in DOMAIN log :
          /\ i < j /\ j < k
          /\ log[i].op = "glPolygonMode" /\ log[i].arg = "GL_LINE"
          /\ log[j].by = "dflt" /\ log[j].op = "draw"
          /\ log[k].op = "glPolygonMode" /\ log[k].arg = "GL_FILL"

(***************************************************************************)
(* C20.  After list.reset(); list.process(root) the lights segment holds   *)
(* exactly the light nodes reachable from root, each once, and the meshes  *)
(* segment exactly the reachable mesh nodes, each segment in depth-first   *)
(* pre-order (an ancestor before its descendants, and below a common       *)
(* ancestor the subtree of the earlier child first); an update of a list   *)
(* that was built from the graph as it is now yields the same list again.  *)
(***************************************************************************)
RECURSIVE PathTo(_, _)
PathTo(g, n) == IF n = 0 THEN << >> ELSE Append(PathTo(g, g[n].parent), n)

ReachableFromRoot(g, n) == PathTo(g, n)[1] = Root

NodesOfKind(g, k) == {n \in Nodes : g[n].kind = k /\ ReachableFromRoot(g, n)}

IndexOf(seq, x) == CHOOSE i \in DOMAIN seq : seq[i] = x

ComesBefore(g, a, b) ==
    LET pa == PathTo(g, a)
        pb == PathTo(g, b)
    IN  \/ Len(pa) < Len(pb) /\ SubSeq(pb, 1, Len(pa)) = pa
        \/ \E k \in 2..Len(pa) :
              /\ k <= Len(pb)
              /\ SubSeq(pa, 1, k - 1) = SubSeq(pb, 1, k - 1)
              /\ pa[k] # pb[k]
              /\ IndexOf(g[pa[k - 1]].children, pa[k])
                    < IndexOf(g[pa[k - 1]].children, pb[k])

SegmentInPreOrder(seg, g, k) ==
    /\ Len(seg) = Cardinality(NodesOfKind(g, k))
    /\ {seg[i].ref : i \in DOMAIN seg} = NodesOfKind(g, k)
    /\ \A i, j \in DOMAIN seg : i < j => ComesBefore(g, seg[i].ref, seg[j].ref)

ListInPreOrder(lst, g) ==
    /\ SegmentInPreOrder(lst.lights, g, "light")
    /\ SegmentInPreOrder(lst.meshes, g, "mesh")

\* The product of the local matrices on the way from the root down to n.
RECURSIVE WorldMatrix(_, _)
WorldMatrix(g, n) ==
    IF n = 0 THEN Identity ELSE MatMul(WorldMatrix(g, g[n].parent), g[n].local)

MatricesCurrent(lst, g) ==
    /\ \A i \in DOMAIN lst.lights :
          lst.lights[i].matrix = WorldMatrix(g, lst.lights[i].ref)
    /\ \A i \in DOMAIN lst.meshes :
          lst.meshes[i].matrix = WorldMatrix(g, lst.meshes[i].ref)

ListUpdated == pc = "returned" /\ api = "list.process"

C20_ListBuiltInTraversalOrder ==
    /\ [](ListUpdated => ListInPreOrder(renderList, graph))
    /\ [][(pc = "idle" /\ api' = "list.process"
             /\ ListInPreOrder(renderList, graph)
             /\ MatricesCurrent(renderList, graph))
           => renderList' = renderList]_vars

C20_Witness ==
    /\ ListUpdated
    /\ Len(renderList.lights) = 2
    /\ Len(renderList.meshes) = 1
    /\ renderList.lights[1].ref = 4
    /\ renderList.lights[2].ref = 3
    /\ renderList.meshes[1].ref = 2

(***************************************************************************)
(* C21.  After list.reset(); list.process(root) the matrix of every entry  *)
(* of the list is the product of the local matrices of the entry's node's  *)
(* ancestors, from the root down, times the node's own local matrix, with  *)
(* the local matrices the nodes have at that moment.                       *)
(***************************************************************************)
C21_EntryHoldsWorldMatrix ==
    ListUpdated => MatricesCurrent(renderList, graph)

C21_Witness ==
    /\ ListUpdated
    /\ \E i \in DOMAIN renderList.lights :
          /\ renderList.lights[i].ref = 4
          /\ renderList.lights[i].matrix = << 1, 2, 0 - 4 >>
    /\ graph[4].local = << 0 - 4 >>
    /\ graph[2].kind = "node"

(***************************************************************************)
(* C22.  The traversal made by list.process(root) visits every node        *)
(* reachable from root exactly once and no other node, in depth-first      *)
(* pre-order with the children in stored order, and leaves the graph as it *)
(* is.  A node that is neither light nor mesh gets no entry, and the       *)
(* matrix of every entry below such a node has the node's local matrix as  *)
(* the factor at the node's depth.                                         *)
(***************************************************************************)
VisitsOf(n) == {i \in DOMAIN log : log[i].op = "visit" /\ log[i].l = n}

RefsOf(lst) ==
    {lst.lights[i].ref : i \in DOMAIN lst.lights}
        \cup {lst.meshes[i].ref : i \in DOMAIN lst.meshes}

EntriesOf(lst) ==
    {lst.lights[i] : i \in DOMAIN lst.lights} \cup {lst.meshes[i] : i \in DOMAIN lst.meshes}

C22_TraversalVisitsOnce ==
    /\ [](ListUpdated =>
            /\ \A n \in Nodes :
                  Cardinality(VisitsOf(n)) = (IF ReachableFromRoot(graph, n) THEN 1 ELSE 0)
            /\ \A i, j \in DOMAIN log :
                  i < j => ComesBefore(graph, log[i].l, log[j].l)
            /\ \A n \in Nodes : graph[n].kind = "node" => n \notin RefsOf(renderList)
            /\ \A e \in EntriesOf(renderList) :
                  \A d \in DOMAIN PathTo(graph, e.ref) :
                     LET a == PathTo(graph, e.ref)[d]
                     IN  graph[a].kind = "node" =>
                            /\ d <= Len(e.matrix)
                            /\ << e.matrix[d] >> = graph[a].local)
    /\ [][(pc = "idle" /\ api' = "list.process") => graph' = graph]_vars

C22_Witness ==
    /\ ListUpdated
    /\ Len(log) = 4
    /\ log[1].l = 1 /\ log[2].l = 2 /\ log[3].l = 4 /\ log[4].l = 3
    /\ graph[2].kind = "node"
    /\ graph[4].kind = "mesh"
    /\ renderList.meshes[1] = [ref |-> 4, matrix |-> << 1, 2, 4 >>]

(***************************************************************************)
(* C23.  In the loop of main every render call is entered straight from    *)
(* the one update of the list made in that pass, with the list that update *)
(* built.  While a frame is rendered the list holds each light and each    *)
(* mesh of the graph once and nothing else, so the counts are those of the *)
(* graph in every frame; an update that follows a frame leaves the two     *)
(* counts as they were: nothing of the earlier frame is kept and the list  *)
(* does not grow.                                                          *)
(***************************************************************************)
Rendering == api = "dflt.render" /\ pc # "idle"

C23_ListRebuiltEveryFrame ==
    /\ [](Rendering =>
            /\ getNrOfLights(list) = Cardinality(NodesOfKind(graph, "light"))
            /\ Len(renderList.lights) = Cardinality(NodesOfKind(graph, "light"))
            /\ Len(renderList.meshes) = Cardinality(NodesOfKind(graph, "mesh")))
    /\ [][/\ (pc' = "dflt_entry" =>
                 /\ ListUpdated
                 /\ list' = ListOf(renderList)
                 /\ renderList' = renderList)
           /\ (pc = "idle" /\ api' = "list.process" /\ renderList # NoEntries =>
                 /\ Len(renderList'.lights) = Len(renderList.lights)
                 /\ Len(renderList'.meshes) = Len(renderList.meshes))]_vars

\* A second frame is being rendered: the pipeline is initialized by the first, and
\* the list has the two lights and the mesh of the graph.
C23_Witness ==
    /\ pc = "dflt_draw"
    /\ api = "dflt.render"
    /\ entry.dflt.initialized
    /\ getNrOfLights(list) = 2
    /\ Len(renderList.lights) = 2
    /\ Len(renderList.meshes) = 1

(***************************************************************************)
(* C24.  Within one PipelineDefault::render call, when the lit draw of     *)
(* light l is about to be issued the call has enabled blending iff l >= 1: *)
(* for l = 0 blend state and function are those found at entry, for every  *)
(* l >= 1 blending is on with function (ONE, ONE).  The call disables      *)
(* blending only once it is past the loop, after the lit draws of all N    *)
(* lights, and only if N > 1.                                              *)
(***************************************************************************)
DisablesBlendAt(evs, i) == evs[i].op = "glDisable" /\ evs[i].arg = "GL_BLEND"

LitDraws(evs) == {i \in DOMAIN evs : evs[i].by = "dflt" /\ evs[i].op = "draw"}

C24_BlendFromLightOne ==
    api = "dflt.render" =>
        /\ pc = "dflt_draw" =>
              /\ EnablesBlend(log) <=> l >= 1
              /\ l >= 1 => gl.blend /\ gl.blendFunc = "ONE_ONE"
              /\ l = 0 => gl.blend = entry.gl.blend /\ gl.blendFunc = entry.gl.blendFunc
        /\ \A i \in DOMAIN log :
              DisablesBlendAt(log, i) =>
                 /\ pc = "returned"
                 /\ getNrOfLights(list) > 1
                 /\ Cardinality(LitDraws(log)) = getNrOfLights(list)
                 /\ \A d \in LitDraws(log) : d < i

C24_Witness ==
    /\ api = "dflt.render"
    /\ pc = "dflt_draw"
    /\ l = 2
    /\ gl.blend
    /\ gl.blendFunc = "ONE_ONE"
    /\ \E d \in LitDraws(log) : log[d].l = 0

(***************************************************************************)
(* C25.  In PipelineDefault::render, when the lit draw of a light is about *)
(* to be issued the bound program is the one of the default pipeline, and  *)
(* for every per-light uniform update and every lit draw of the call the   *)
(* last program bound before it was bound by the default pipeline, not by  *)
(* the shadow pass that ran before.                                        *)
(***************************************************************************)
BindsProgram(e) == e.op = "bind" /\ e.arg = "program"

PerLightUse(e) == e.by = "dflt" /\ e.l >= 0 /\ e.op \in {"uniform", "draw"}

C25_ShadingProgramBound ==
    api = "dflt.render" =>
        /\ pc = "dflt_draw" => gl.program = "dflt"
        /\ \A i \in DOMAIN log :
              PerLightUse(log[i]) =>
                 \E j \in 1..(i - 1) :
                    /\ BindsProgram(log[j])
                    /\ log[j].by = "dflt"
                    /\ \A k \in (j + 1)..(i - 1) : ~BindsProgram(log[k])

\* The draw of light 1 is about to be issued and the shadow pass of light 1 has
\* bound its own program in between.
C25_Witness ==
    /\ api = "dflt.render"
    /\ pc = "dflt_draw"
    /\ l = 1
    /\ gl.program = "dflt"
    /\ \E j \in DOMAIN log :
          BindsProgram(log[j]) /\ log[j].by = "shadow" /\ log[j].l = 1

(***************************************************************************)
(* C26.  When the lit draw of light l is about to be issued, the depth map *)
(* bound at slot 4 exists and the last draw made into it is the draw of    *)
(* the shadow pass that this render call ran for light l.                  *)
(***************************************************************************)
ShadowDraws(evs) == {i \in DOMAIN evs : evs[i].by = "shadow" /\ evs[i].op = "draw"}

C26_DepthMapOfThisLight ==
    api = "dflt.render" /\ pc = "dflt_draw" =>
        /\ gl.tex4 = "shadowMap"
        /\ shadow.depthMap
        /\ \E i \in ShadowDraws(log) :
              /\ log[i].l = l
              /\ \A j \in ShadowDraws(log) : j <= i

(***************************************************************************)
(* C27.  When the shadow pass is about to issue its draw, the shadow       *)
(* framebuffer is bound and its depth has been cleared since it was bound, *)
(* color writes are off, face culling is on with cull direction FRONT; and *)
(* every draw the shadow pass has issued is a draw of the meshes segment.  *)
(***************************************************************************)
ClearedSinceBound(evs) ==
    \E b, c \in DOMAIN evs :
       /\ b < c
       /\ evs[b].op = "bindFbo" /\ evs[b].arg = "shadow"
       /\ evs[c].op = "glClear" /\ evs[c].arg = "GL_DEPTH_BUFFER_BIT"
       /\ \A k \in (b + 1)..Len(evs) : evs[k].op # "bindFbo"

C27_ShadowDrawSettings ==
    /\ pc = "shadow_draw" =>
          /\ gl.fbo = "shadow"
          /\ ClearedSinceBound(log)
          /\ ~gl.colorMask
          /\ gl.cullFace
          /\ gl.cullMode = "FRONT"
    /\ \A i \in ShadowDraws(log) : log[i].arg = "meshes"

\* The pass was entered with culling off and color writes on, and is about to draw.
C27_Witness ==
    /\ pc = "shadow_draw"
    /\ ~entry.gl.cullFace
    /\ entry.gl.cullMode = "BACK"
    /\ entry.gl.colorMask
    /\ gl.cullFace
    /\ gl.cullMode = "FRONT"
    /\ ShadowDraws(log) = {}

(***************************************************************************)
(* C28.  The flag set through PipelineDefault::setFrontFaceCulling decides *)
(* the culling of the shadow pass: when the pass is about to draw, front   *)
(* faces are culled iff the flag is on.                                    *)
(***************************************************************************)
C28_ToggleControlsShadowCulling ==
    pc = "shadow_draw" =>
        ((gl.cullFace /\ gl.cullMode = "FRONT") <=> isFrontFaceCulling(shadow))

(***************************************************************************)
(* C29.  In a list built by reset() and process(root), every element at an *)
(* index below the number of lights is a light; and inside the light loop  *)
(* of PipelineDefault::render the index l is below that number, so the     *)
(* element the loop takes for the downcast to Light is a light.            *)
(***************************************************************************)
IsLightElem(lst, g, i) ==
    /\ i < Len(lst.lights) + Len(lst.meshes)
    /\ g[getRenderableElem(lst, i).ref].kind = "light"

InLightLoopBody ==
    /\ api = "dflt.render"
    /\ pc \in {"shadow_entry", "shadow_draw", "dflt_lit", "dflt_draw"}

C29_LightIndexIsLight ==
    /\ ListUpdated \/ Rendering =>
          \A i \in 0..(getNrOfLights(ListOf(renderList)) - 1) :
             IsLightElem(renderList, graph, i)
    /\ InLightLoopBody => IsLightElem(renderList, graph, l)

\* The second light of a list that also has a mesh is being rendered.
C29_Witness ==
    /\ InLightLoopBody
    /\ pc = "dflt_lit"
    /\ l = 1
    /\ Len(renderList.lights) = 2
    /\ Len(renderList.meshes) = 1
    /\ graph[getRenderableElem(renderList, 1).ref].kind = "light"
    /\ graph[getRenderableElem(renderList, 2).ref].kind = "mesh"

IsPrefix(a, b) == Len(a) <= Len(b) /\ a = SubSeq(b, 1, Len(a))

FrameWithoutSkybox ==
    << "list.reset", "list.process", "eng.clear", "dfltPipe.render", "eng.swap" >>

FrameWithSkybox ==
    << "list.reset", "list.process", "eng.clear", "dfltPipe.render",
       "eng.clear", "skyboxPipe.render", "eng.swap" >>

FrameComplete(f) == f # << >> /\ f[Len(f)] = "eng.swap"

C31_FrameOrder ==
    /\ [](IsPrefix(main.frame, FrameWithoutSkybox) \/ IsPrefix(main.frame, FrameWithSkybox))
    /\ [][/\ (~FrameComplete(main.frame) /\ FrameComplete(main.frame') =>
                 main.frame' = IF main.showShadowMap THEN FrameWithSkybox
                               ELSE FrameWithoutSkybox)
           /\ (api' = "list.process" /\ api # "list.process" =>
                 main.frame = << >> \/ FrameComplete(main.frame))]_vars

\* A pass with the shadow-map view on has been completed after one without it.
C31_Witness ==
    /\ pc = "idle"
    /\ main.showShadowMap
    /\ main.frame = FrameWithSkybox
    /\ dflt.initialized

(***************************************************************************)
(* C32.  The keyboard callback runs only while main is in processEvents.   *)
(* From the step that rebuilds the list up to the swap of the pass, no     *)
(* step changes a local matrix of the graph, the wireframe or depth-buffer *)
(* flag, acne_bias or pfc_radius_scale_factor.                             *)
(***************************************************************************)
CallbackInputs ==
    << [n \in Nodes |-> graph[n].local], dflt.wireframe, dflt.depthBuffer,
       dflt.acne_bias, dflt.pfc_radius_scale_factor >>

InLoopOfMain == pc \notin {"main_start", "main_registered", "main_loaded", "terminated"}

C32_InputsFixedWithinFrame ==
    [][/\ (main.keys' # main.keys => pc = "idle" /\ pc' = "idle")
       /\ (InLoopOfMain /\ (pc # "idle" \/ api' = "list.process") =>
             CallbackInputs' = CallbackInputs)]_vars

\* A frame is being drawn after the W key and a light key were pressed.
C32_Witness ==
    /\ pc = "dflt_draw"
    /\ main.keys = 2
    /\ dflt.wireframe
    /\ graph[2].local = << 0 - 2 >>
    /\ renderList.lights[1].matrix = << 1, 0 - 2 >>

(***************************************************************************)
(* C37.  The keyboard callback never moves Eng::Light::empty: whenever it  *)
(* runs, the global light already refers to the light of the scene, and    *)
(* the sentinel keeps the matrix it was constructed with.                  *)
(***************************************************************************)
C37_SentinelNeverMoved ==
    /\ [](~main.emptyMoved)
    /\ [][main.keys' # main.keys =>
             /\ main.light # 0
             /\ graph[main.light].kind = "light"
             /\ main.light' = main.light]_vars

\* A light key has been pressed in the loop and the light of the scene has moved.
C37_Witness ==
    /\ pc = "idle"
    /\ main.callbacks
    /\ main.keys = 1
    /\ main.light = 2
    /\ graph[2].local = << 0 - 2 >>
    /\ ~main.emptyMoved

(***************************************************************************)
(* C33.  PipelineShadowMapping::render uploads exactly six face            *)
(* transforms, to shadowMatrices[0] .. shadowMatrices[5]; transform i is   *)
(* the light projection times the look-at view from the light position     *)
(* (column 3 of the matrix the pass receives) along +X, -X, +Y, -Y, +Z, -Z *)
(* with the up vectors (0,-1,0), (0,-1,0), (0,0,1), (0,0,-1), (0,-1,0),    *)
(* (0,-1,0).                                                               *)
(***************************************************************************)
FaceDirection ==
    [i \in 0..5 |-> CASE i = 0 -> << 1, 0, 0 >>  [] i = 1 -> << 0 - 1, 0, 0 >>
                      [] i = 2 -> << 0, 1, 0 >>  [] i = 3 -> << 0, 0 - 1, 0 >>
                      [] i = 4 -> << 0, 0, 1 >>  [] i = 5 -> << 0, 0, 0 - 1 >>]

FaceUp ==
    [i \in 0..5 |-> CASE i \in {0, 1, 4, 5} -> << 0, 0 - 1, 0 >>
                      [] i = 2 -> << 0, 0, 1 >>
                      [] i = 3 -> << 0, 0, 0 - 1 >>]

FaceUploads == SelectSeq(log, LAMBDA e : e.by = "shadow" /\ e.op = "uniform"
                                          /\ e.arg \notin {"lightInv", "far_plane"})

ShadowPassUploaded == api = "shadow.render" /\ pc = "shadow_draw" /\ "args" \in DOMAIN entry

C33_SixFaceTransforms ==
    ShadowPassUploaded =>
        LET eye == entry.args.camera.col3
        IN  /\ [k \in 1..Len(FaceUploads) |-> FaceUploads[k].arg]
                 = << "shadowMatrices[0]", "shadowMatrices[1]", "shadowMatrices[2]",
                      "shadowMatrices[3]", "shadowMatrices[4]", "shadowMatrices[5]" >>
            /\ DOMAIN shadow.uniform.shadowMatrices = 0..5
            /\ \A i \in 0..5 :
                  shadow.uniform.shadowMatrices[i]
                    = << entry.args.proj,
                         [eye |-> eye,
                          center |-> << eye[1] + FaceDirection[i][1],
                                        eye[2] + FaceDirection[i][2],
                                        eye[3] + FaceDirection[i][3] >>,
                          up |-> FaceUp[i]] >>

C33_Witness ==
    /\ ShadowPassUploaded
    /\ entry.args.camera.col3 = << 1, 0 - 1, 0 >>
    /\ entry.args.proj.far = 200
    /\ shadow.uniform.shadowMatrices[3][2].center = << 1, 0 - 2, 0 >>
    /\ shadow.uniform.shadowMatrices[3][2].up = << 0, 0, 0 - 1 >>

(***************************************************************************)
(* C34.  In every light sub-pass of PipelineDefault::render whose shadow   *)
(* pass has drawn, the far_plane the shadow program divides distances by   *)
(* equals the far_plane the lit program multiplies them by, whatever the   *)
(* far plane of the light's projection matrix is.                          *)
(***************************************************************************)
ShadowPassDrewFor(li) == \E i \in ShadowDraws(log) : log[i].l = li

C34_FarPlanesAgree ==
    api = "dflt.render" /\ pc = "dflt_draw" /\ ShadowPassDrewFor(l) =>
        /\ shadow.uniform.far_plane = dflt.uniform.far_plane
        /\ dflt.uniform.far_plane # F(0)

C34_Witness ==
    /\ api = "dflt.render" /\ pc = "dflt_draw" /\ l = 1
    /\ ShadowPassDrewFor(1)
    /\ SceneLightArgs.proj.far = 200
    /\ shadow.uniform.far_plane = F(125)
    /\ dflt.uniform.far_plane = F(125)

(***************************************************************************)
(* C35.  A PipelineDefault::render call on a list that is not the sentinel *)
(* and holds no light invokes the shadow pipeline zero times, issues zero  *)
(* draw calls, leaves the blend state as it found it, and returns true     *)
(* whenever the pipeline has its program built and set.                    *)
(***************************************************************************)
DefaultRenderReturnedNoLights ==
    /\ api = "dflt.render" /\ pc = "returned"
    /\ ~list.sentinel
    /\ getNrOfLights(list) = 0

C35_NoLightsNoWork ==
    DefaultRenderReturnedNoLights =>
        /\ dflt.program /\ ~ProgramIsEmpty(dflt) => ret.dflt
        /\ \A i \in DOMAIN log :
              /\ log[i].by # "shadow"
              /\ log[i].op \notin {"call", "draw"}
              /\ ~BlendCall(log[i])
        /\ gl.blend = entry.gl.blend
        /\ gl.blendFunc = entry.gl.blendFunc

C35_Witness ==
    /\ DefaultRenderReturnedNoLights
    /\ ret.dflt
    /\ log # << >>
    /\ entry.gl.blend
    /\ gl.blend

(***************************************************************************)
(* C36.  When wireframe mode is on, PipelineDefault::render sets the line  *)
(* polygon mode before the light loop and restores the fill mode only      *)
(* after it: the line mode is in effect during every draw of the shadow    *)
(* pipeline made by that call and during every lit draw.                   *)
(***************************************************************************)
PolygonModeCalls(evs, mode) ==
    {i \in DOMAIN evs : evs[i].op = "glPolygonMode" /\ evs[i].arg = mode}

DrawsOf(evs) == {i \in DOMAIN evs : evs[i].op = "draw"}

C36_WireframeCoversShadowDraws ==
    api = "dflt.render" /\ isWireframe(entry.dflt) =>
        /\ pc \in {"shadow_draw", "dflt_draw"} => gl.polygonMode = "LINE"
        /\ \A d \in DrawsOf(log) :
              /\ \E i \in PolygonModeCalls(log, "GL_LINE") : i < d
              /\ \A j \in PolygonModeCalls(log, "GL_FILL") : d < j
        /\ \A i \in PolygonModeCalls(log, "GL_LINE") \cup PolygonModeCalls(log, "GL_FILL") :
              log[i].by = "dflt" /\ log[i].l < 0

C36_Witness ==
    /\ api = "dflt.render" /\ pc = "shadow_draw" /\ l = 1
    /\ isWireframe(entry.dflt)
    /\ entry.gl.polygonMode = "FILL"
    /\ gl.polygonMode = "LINE"
    /\ ShadowDraws(log) # {}
    /\ LitDraws(log) # {}
    /\ PolygonModeCalls(log, "GL_FILL") = {}
====
